---- MODULE Spec2Model ----
(***************************************************************************)
(* exocommand: the process runner (src/src/executor.ts), the streaming     *)
(* execute handler (src/src/server.ts) and the background task runner      *)
(* (task.ts, src/unnamed/part_001), as one state machine for a single      *)
(* execution.                                                              *)
(*                                                                         *)
(* Text is a sequence of one-character strings; "\n" is the line feed.     *)
(* The JavaScript event loop runs one callback at a time, so every action  *)
(* below is one callback (an event handler, or the part of an async        *)
(* function between two awaits).                                           *)
(***************************************************************************)
EXTENDS Integers, Sequences, FiniteSets, TLC

\* Bytes one direct run of executeCommand may receive over both streams.
MaxBytes == 4

Streams == {"stdout", "stderr"}
NL == "\n"
Chars == {"a", NL}
\* An optional value: Nothing, or Just(x).
Nothing == <<>>
Just(x) == <<x>>

VARIABLES
  \* ---- executeCommand (src/src/executor.ts) ----
  pc,          \* "init", "streams", "exit", "returned", "threw"
  listener,    \* onAbort is registered on the signal
  proc,        \* the child process: "none", "running", "exited", "closed";
               \* "failed" (could not be started), "errored" ('error' emitted)
  signalled,   \* the process group received SIGTERM while the process ran
  termSent,    \* number of process.kill(-pid, "SIGTERM") calls
  exitCode,    \* Just the code of the 'close' event, itself Just(n) or Nothing (null)
  exitPromise, \* Nothing while pending, else Just the number it resolved with
  phase,       \* per stream: "open", "ended", "errored", "closed"
  buffer,      \* per stream: the text after the last line feed
  pending,     \* per stream: the callbacks chained on `pending`, oldest first
  inflight,    \* per stream: Just the text of the log call the chain awaits
  settled,     \* per stream: the settled flag
  promise,     \* per stream: streamLines' promise: "pending", "resolved", "rejected"
  chainRejected, \* per stream: the promise `pending` is rejected
  result,      \* Nothing, or Just the ExecutionResult returned
  received,    \* per stream: every character received so far
  budget,      \* bytes the process may still write
  abortedRunning, \* the signal became active while the awaited process ran
  \* ---- the caller ----
  mode,        \* "direct" (executor.test.ts), "sync" (server.ts), "task" (task.ts),
               \* "callback" (a direct caller whose log callback may reject)
  entries,     \* direct: the log calls collected, in call order
  acAborted,   \* ac.signal.aborted
  \* ---- execute handlers (src/src/server.ts, task.ts) ----
  hpc,         \* handler / background runner: "idle", "load", "run", "getTask", "done"
  reqAborted,  \* extra.signal.aborted
  wired,       \* the handler's listener on extra.signal is registered
  hasTimeout,  \* a timeout was requested
  timeoutAborted, \* timeoutSignal.aborted
  reason,      \* combinedSignal.reason: "none", or the source that aborted it
               \* first: "cancel" (ac.signal) or "timeout" (timeoutSignal)
  active,      \* activeExecutions has the entry of this execution
  closed,      \* server.server.onclose has run
  lines,       \* the transcript: <<logger, data>> pairs
  lineCount,   \* task mode: lineCount
  sendFailed,  \* a notification send of a log callback was rejected
  task,        \* Nothing, or Just [status, statusMessage] of the stored task
  taskResult,  \* Nothing, or Just the result stored with the task
  storeCalls,  \* number of taskStore.storeTaskResult calls of the run
  outcome,     \* Nothing, or Just what the execute handler / createTask returned
  \* ---- several executions of one session (server.ts, task.ts) ----
  execs,       \* per execution id: its controller, signals, table entry, task
  \* ---- the project registry (src/src/registry.ts) ----
  registryFile, \* Nothing (no file), or Just the entries saved, in insertion order
  regCall,     \* the last registry call: its name, argument and outcome
  \* ---- the other parts of the application ----
  config,      \* loadConfig: the parsed YAML document and what loadConfig gave
  adds,        \* addProject calls running concurrently: their local state
  tui,         \* the dashboard (src/src/tui.ts)
  watch        \* the HTTP entry point: sessions and config-file watchers

execVars == <<pc, listener, proc, signalled, termSent, exitCode, exitPromise, chainRejected,
              phase, buffer, pending, inflight, settled, promise, result,
              received, budget, abortedRunning>>
sigVars == <<acAborted, reqAborted, wired, hasTimeout, timeoutAborted, reason>>
taskVars == <<task, taskResult, storeCalls>>
logVars == <<entries, lines, lineCount, sendFailed>>
srvVars == <<hpc, active, closed, outcome>>
appVars == <<config, adds, tui, watch>>
sideVars == <<execs, registryFile, regCall, appVars>>
vars == <<execVars, sigVars, taskVars, logVars, srvVars, mode, sideVars>>

--------------------------------------------------------------------------
(* Text helpers *)

\* All texts over Chars of length n.
RECURSIVE TextsOfLen(_)
TextsOfLen(n) ==
  IF n = 0 THEN {<<>>}
  ELSE {<<c>> \o t : c \in Chars, t \in TextsOfLen(n - 1)}

Chunks(n) == UNION {TextsOfLen(k) : k \in 1..n}

\* The bytes of a text, and TextDecoder.decode(chunk, {stream: true}) on them
\* (single-byte characters only).
Byte(c) == CASE c = "a" -> 97 [] c = NL -> 10
CharOf(b) == CASE b = 97 -> "a" [] b = 10 -> NL
Encode(t) == [i \in 1..Len(t) |-> Byte(t[i])]
decode(bytes) == [i \in 1..Len(bytes) |-> CharOf(bytes[i])]

\* String.prototype.split("\n"): always at least one element.
RECURSIVE split(_)
split(t) ==
  IF \A i \in 1..Len(t) : t[i] # NL THEN <<t>>
  ELSE LET i == CHOOSE j \in 1..Len(t) :
                  t[j] = NL /\ \A k \in 1..(j - 1) : t[k] # NL
       IN <<SubSeq(t, 1, i - 1)>> \o split(SubSeq(t, i + 1, Len(t)))

Last(s) == s[Len(s)]
Front(s) == SubSeq(s, 1, Len(s) - 1)

\* (mutant) every line is logged, empty or not.
SelectNonEmpty_All(ls) == ls

RECURSIVE SelectNonEmpty(_)
SelectNonEmpty(ls) ==
  IF ls = <<>> THEN <<>>
  ELSE IF Len(Head(ls)) > 0 THEN <<Head(ls)>> \o SelectNonEmpty(Tail(ls))
  ELSE SelectNonEmpty(Tail(ls))

\* (mutant) one level for both streams.
levelOf_AlwaysInfo(logger) == "info"

levelOf(logger) == IF logger = "stderr" THEN "error" ELSE "info"

\* The callbacks chained on `pending`: log(level, logger, line) of the data
\* handler, log(level, logger, buffer) of the end handler, and settle.
LineItem(t) == [kind |-> "line", text |-> t]
FlushItem == [kind |-> "flush", text |-> <<>>]
SettleItem == [kind |-> "settle", text |-> <<>>]

RECURSIVE LineItems(_)
LineItems(ls) ==
  IF ls = <<>> THEN <<>> ELSE <<LineItem(Head(ls))>> \o LineItems(Tail(ls))

\* combinedSignal.aborted: AbortSignal.any([ac.signal, timeoutSignal]), or
\* ac.signal alone when no timeout was requested.
signalAborted == acAborted \/ (hasTimeout /\ timeoutAborted)

--------------------------------------------------------------------------
(* Promise continuations (microtasks) run before the next event is handled. *)

\* (mutant) the next callback does not wait for the log call before it.
ChainReady_NoWait(s) == pending[s] # <<>>

\* `pending.then(...)`: the oldest chained callback runs once the log call
\* before it has settled.
ChainReady(s) == inflight[s] = Nothing /\ pending[s] # <<>>
StreamsReady ==
  /\ pc = "streams"
  /\ \/ \E s \in Streams : promise[s] = "rejected"
     \/ \A s \in Streams : promise[s] = "resolved"
ExitReady == pc = "exit" /\ exitPromise # Nothing
HandlerReady == hpc = "run" /\ pc \in {"returned", "threw"}
GetTaskReady == hpc = "getTask"
\* The 'error' event of a child that could not be started is emitted on the
\* next tick, before any other event.
ErrorReady == proc = "failed"
Quiet ==
  /\ \A s \in Streams : ~ChainReady(s)
  /\ ~StreamsReady /\ ~ExitReady /\ ~HandlerReady /\ ~GetTaskReady
  /\ ~ErrorReady

--------------------------------------------------------------------------
(* executeCommand *)

\* (mutant) onAbort sends nothing.
onAbort_NoKill == UNCHANGED <<termSent, signalled>>

\* onAbort: SIGTERM to the process group when the child has a pid; a failing
\* kill is swallowed.
onAbort ==
  IF proc \in {"running", "exited", "closed"}
  THEN /\ termSent' = termSent + 1
       /\ signalled' = (signalled \/ proc = "running")
  ELSE UNCHANGED <<termSent, signalled>>

\* (mutant) the observer is notified on every activation of a constituent.
Activate_EveryTime(a, t) ==
  /\ acAborted' = a
  /\ timeoutAborted' = t
  /\ IF a \/ (hasTimeout /\ t)
     THEN /\ reason' = IF reason # "none" THEN reason
                    ELSE IF a /\ ~acAborted THEN "cancel" ELSE "timeout"
          /\ IF listener THEN onAbort ELSE UNCHANGED <<termSent, signalled>>
          /\ abortedRunning' =
               (abortedRunning \/ (proc = "running" /\ pc \in {"streams", "exit"}))
     ELSE UNCHANGED <<reason, termSent, signalled, abortedRunning>>

\* ac.signal.aborted becomes a and timeoutSignal.aborted becomes t; when that
\* activates the signal handed to executeCommand, its 'abort' listener runs.
Activate(a, t) ==
  /\ acAborted' = a
  /\ timeoutAborted' = t
  /\ IF ~signalAborted /\ (a \/ (hasTimeout /\ t))
     THEN /\ reason' = IF a /\ ~acAborted THEN "cancel" ELSE "timeout"
          /\ IF listener THEN onAbort ELSE UNCHANGED <<termSent, signalled>>
          /\ abortedRunning' =
               (abortedRunning \/ (proc = "running" /\ pc \in {"streams", "exit"}))
     ELSE UNCHANGED <<reason, termSent, signalled, abortedRunning>>

\* (mutant) no check of signal.aborted before spawn.
executeCommand_NoPrecheck(aborted) ==
  /\ pc = "init"
  /\ pc' = "streams"
  /\ proc' = "running"
  /\ listener' = TRUE
  /\ UNCHANGED <<result, signalled, termSent, exitCode, exitPromise, chainRejected, phase,
                 buffer, pending, inflight, settled, promise, received, budget,
                 abortedRunning>>

\* The call, up to the first await: the pre-abort check, spawn, the listener.
\* spawn returns a child in either case: one that runs, or one that could not
\* be started (no pid) and will emit 'error'.
executeCommand(aborted) ==
  /\ pc = "init"
  /\ IF aborted
     THEN /\ pc' = "returned"
          /\ result' = Just([exitCode |-> -1, killed |-> TRUE])
          /\ UNCHANGED <<proc, listener>>
     ELSE /\ pc' = "streams"
          /\ \E started \in BOOLEAN :
               proc' = IF started THEN "running" ELSE "failed"
          /\ listener' = TRUE
          /\ UNCHANGED result
  /\ UNCHANGED <<signalled, termSent, exitCode, exitPromise, chainRejected, phase, buffer,
                 pending, inflight, settled, promise, received, budget,
                 abortedRunning>>

--------------------------------------------------------------------------
(* The task store.  InMemoryTaskStore is the SDK's; ExoTaskStore extends it. *)

isTerminal(status) == status \in {"completed", "failed", "cancelled"}

\* The store accepts a write for a task it holds that is not terminal, and
\* throws otherwise.
storeAccepts == task # Nothing /\ ~isTerminal(task[1].status)

\* InMemoryTaskStore.updateTaskStatus
super_updateTaskStatus(status, statusMessage) ==
  IF storeAccepts
  THEN task' = Just([status |-> status,
                     statusMessage |-> IF statusMessage = Nothing
                                       THEN task[1].statusMessage
                                       ELSE statusMessage])
  ELSE UNCHANGED task

\* (mutant) the override writes the status itself, without super's check.
updateTaskStatus_Unchecked(status, statusMessage) ==
  /\ IF task # Nothing
     THEN task' = Just([status |-> status, statusMessage |-> statusMessage])
     ELSE UNCHANGED task
  /\ IF task # Nothing /\ status = "cancelled" /\ active
     THEN /\ Activate(TRUE, timeoutAborted)
          /\ active' = FALSE
     ELSE UNCHANGED <<acAborted, timeoutAborted, reason, termSent, signalled,
                      abortedRunning, active>>

\* (mutant) the plain store: a cancelled status aborts nothing.
updateTaskStatus_NoAbort(status, statusMessage) ==
  /\ super_updateTaskStatus(status, statusMessage)
  /\ UNCHANGED <<acAborted, timeoutAborted, reason, termSent, signalled,
                 abortedRunning, active>>

\* ExoTaskStore.updateTaskStatus: when super has not thrown and the status is
\* cancelled, abort the controller of the task and drop it from the table.
updateTaskStatus(status, statusMessage) ==
  /\ super_updateTaskStatus(status, statusMessage)
  /\ IF storeAccepts /\ status = "cancelled" /\ active
     THEN /\ Activate(TRUE, timeoutAborted)
          /\ active' = FALSE
     ELSE UNCHANGED <<acAborted, timeoutAborted, reason, termSent, signalled,
                      abortedRunning, active>>

\* InMemoryTaskStore.storeTaskResult
storeTaskResult(status, res) ==
  IF storeAccepts
  THEN /\ task' = Just([task[1] EXCEPT !.status = status])
       /\ taskResult' = Just(res)
  ELSE UNCHANGED <<task, taskResult>>

--------------------------------------------------------------------------
(* The log callbacks handed to executeCommand, up to their first await. *)

\* executor.test.ts, createLogCollector
logDirect(logger, data) ==
  /\ entries' = Append(entries,
       [level |-> levelOf(logger), logger |-> logger, data |-> data])
  /\ UNCHANGED <<lines, lineCount, sendFailed, taskVars>>
  /\ UNCHANGED <<acAborted, timeoutAborted, reason, termSent, signalled,
                 abortedRunning, active>>

\* server.ts, registerSyncMode: lines.push, then sendNotification
logSync(logger, data) ==
  /\ lines' = Append(lines, <<logger, data>>)
  /\ UNCHANGED <<entries, lineCount, sendFailed, taskVars>>
  /\ UNCHANGED <<acAborted, timeoutAborted, reason, termSent, signalled,
                 abortedRunning, active>>

\* (mutant) the log callback does not update the task status.
logTask_NoStatus(logger, data) ==
  /\ lineCount' = lineCount + 1
  /\ lines' = Append(lines, <<logger, data>>)
  /\ UNCHANGED <<task, acAborted, timeoutAborted, reason, termSent, signalled,
                 abortedRunning, active>>
  /\ UNCHANGED <<entries, sendFailed, taskResult, storeCalls>>

\* (mutant) the status message is built before lineCount is incremented.
logTask_CountBefore(logger, data) ==
  /\ lineCount' = lineCount + 1
  /\ lines' = Append(lines, <<logger, data>>)
  /\ updateTaskStatus("working",
       Just([count |-> lineCount, logger |-> logger, data |-> data]))
  /\ UNCHANGED <<entries, sendFailed, taskResult, storeCalls>>

\* task.ts, runBackgroundExecution: lineCount++, lines.push, then the status
\* update (a throwing store is swallowed), then sendLoggingMessage
logTask(logger, data) ==
  /\ lineCount' = lineCount + 1
  /\ lines' = Append(lines, <<logger, data>>)
  /\ updateTaskStatus("working",
       Just([count |-> lineCount + 1, logger |-> logger, data |-> data]))
  /\ UNCHANGED <<entries, sendFailed, taskResult, storeCalls>>

logCall(logger, data) ==
  CASE mode \in {"direct", "callback"} -> logDirect(logger, data)
    [] mode = "sync" -> logSync(logger, data)
    [] mode = "task" -> logTask(logger, data)

\* stream.on("data")
Data(s) ==
  /\ Quiet /\ proc \in {"running", "exited"} /\ phase[s] = "open" /\ budget > 0
  /\ \E t \in Chunks(budget) :
       LET text == buffer[s] \o decode(Encode(t))
           ls == split(text)
       IN /\ buffer' = [buffer EXCEPT ![s] = Last(ls)]
          /\ pending' = [pending EXCEPT
               ![s] = @ \o LineItems(SelectNonEmpty(Front(ls)))]
          /\ received' = [received EXCEPT ![s] = @ \o t]
          /\ budget' = budget - Len(t)
  /\ UNCHANGED <<pc, listener, proc, signalled, termSent, exitCode, exitPromise, chainRejected,
                 phase, inflight, settled, promise, result, abortedRunning>>
  /\ UNCHANGED <<sigVars, taskVars, logVars, srvVars, mode, sideVars>>

\* (mutant) the end handler calls settle() at once instead of chaining it.
End_SettleNow(s) ==
  /\ Quiet /\ proc \in {"running", "exited"} /\ phase[s] = "open"
  /\ phase' = [phase EXCEPT ![s] = "ended"]
  /\ pending' = [pending EXCEPT ![s] =
       @ \o (IF Len(buffer[s]) > 0 THEN <<FlushItem>> ELSE <<>>)]
  /\ settled' = [settled EXCEPT ![s] = TRUE]
  /\ promise' = [promise EXCEPT
       ![s] = IF ~settled[s] /\ @ = "pending" THEN "resolved" ELSE @]
  /\ UNCHANGED <<pc, listener, proc, signalled, termSent, exitCode, exitPromise, chainRejected,
                 buffer, inflight, result, received, budget, abortedRunning>>
  /\ UNCHANGED <<sigVars, taskVars, logVars, srvVars, mode, sideVars>>

\* (mutant) the end handler does not flush the buffer.
End_NoFlush(s) ==
  /\ Quiet /\ proc \in {"running", "exited"} /\ phase[s] = "open"
  /\ phase' = [phase EXCEPT ![s] = "ended"]
  /\ pending' = [pending EXCEPT ![s] =
       @ \o <<SettleItem>>]
  /\ UNCHANGED <<pc, listener, proc, signalled, termSent, exitCode, exitPromise, chainRejected,
                 buffer, inflight, settled, promise, result, received, budget,
                 abortedRunning>>
  /\ UNCHANGED <<sigVars, taskVars, logVars, srvVars, mode, sideVars>>

\* stream.on("end")
End(s) ==
  /\ Quiet /\ proc \in {"running", "exited"} /\ phase[s] = "open"
  /\ phase' = [phase EXCEPT ![s] = "ended"]
  /\ pending' = [pending EXCEPT ![s] =
       @ \o (IF Len(buffer[s]) > 0 THEN <<FlushItem>> ELSE <<>>) \o <<SettleItem>>]
  /\ UNCHANGED <<pc, listener, proc, signalled, termSent, exitCode, exitPromise, chainRejected,
                 buffer, inflight, settled, promise, result, received, budget,
                 abortedRunning>>
  /\ UNCHANGED <<sigVars, taskVars, logVars, srvVars, mode, sideVars>>

\* (mutant) the close handler calls settle() at once.
Close_SettleNow(s) ==
  /\ Quiet
  /\ \/ phase[s] \in {"ended", "errored"}
     \/ phase[s] = "open" /\ proc = "exited"
  /\ phase' = [phase EXCEPT ![s] = "closed"]
  /\ settled' = [settled EXCEPT ![s] = TRUE]
  /\ promise' = [promise EXCEPT
       ![s] = IF ~settled[s] /\ @ = "pending" THEN "resolved" ELSE @]
  /\ UNCHANGED <<pc, listener, proc, signalled, termSent, exitCode, exitPromise, chainRejected,
                 buffer, pending, inflight, result, received, budget,
                 abortedRunning>>
  /\ UNCHANGED <<sigVars, taskVars, logVars, srvVars, mode, sideVars>>

\* stream.on("close"): after 'end' or 'error', or without either once the
\* process is gone.
Close(s) ==
  /\ Quiet
  /\ \/ phase[s] \in {"ended", "errored"}
     \/ phase[s] = "open" /\ proc = "exited"
  /\ phase' = [phase EXCEPT ![s] = "closed"]
  /\ pending' = [pending EXCEPT ![s] = Append(@, SettleItem)]
  /\ UNCHANGED <<pc, listener, proc, signalled, termSent, exitCode, exitPromise, chainRejected,
                 buffer, inflight, settled, promise, result, received, budget,
                 abortedRunning>>
  /\ UNCHANGED <<sigVars, taskVars, logVars, srvVars, mode, sideVars>>

\* (mutant) the error handler rejects without a look at signal.aborted.
Error_AlwaysReject(s) ==
  /\ Quiet /\ proc \in {"running", "exited"} /\ phase[s] = "open"
  /\ phase' = [phase EXCEPT ![s] = "errored"]
  /\ IF TRUE
     THEN /\ promise' = [promise EXCEPT
               ![s] = IF @ = "pending" THEN "rejected" ELSE @]
          /\ UNCHANGED pending
     ELSE /\ pending' = [pending EXCEPT ![s] = Append(@, SettleItem)]
          /\ UNCHANGED promise
  /\ UNCHANGED <<pc, listener, proc, signalled, termSent, exitCode, exitPromise, chainRejected,
                 buffer, inflight, settled, result, received, budget,
                 abortedRunning>>
  /\ UNCHANGED <<sigVars, taskVars, logVars, srvVars, mode, sideVars>>

\* stream.on("error")
Error(s) ==
  /\ Quiet /\ proc \in {"running", "exited"} /\ phase[s] = "open"
  /\ phase' = [phase EXCEPT ![s] = "errored"]
  /\ IF ~signalAborted
     THEN /\ promise' = [promise EXCEPT
               ![s] = IF @ = "pending" THEN "rejected" ELSE @]
          /\ UNCHANGED pending
     ELSE /\ pending' = [pending EXCEPT ![s] = Append(@, SettleItem)]
          /\ UNCHANGED promise
  /\ UNCHANGED <<pc, listener, proc, signalled, termSent, exitCode, exitPromise, chainRejected,
                 buffer, inflight, settled, result, received, budget,
                 abortedRunning>>
  /\ UNCHANGED <<sigVars, taskVars, logVars, srvVars, mode, sideVars>>

\* settle()
settle(s) ==
  /\ settled' = [settled EXCEPT ![s] = TRUE]
  /\ promise' = [promise EXCEPT
       ![s] = IF ~settled[s] /\ @ = "pending" THEN "resolved" ELSE @]

\* The next callback chained on `pending` runs once the one before it is done;
\* a callback chained with then() on a rejected promise is not run.
Chain(s) ==
  /\ ChainReady(s)
  /\ pending' = [pending EXCEPT ![s] = Tail(@)]
  /\ LET item == Head(pending[s])
         data == IF item.kind = "flush" THEN buffer[s] ELSE item.text
     IN IF chainRejected[s]
        THEN /\ UNCHANGED <<inflight, settled, promise, logVars, taskVars>>
             /\ UNCHANGED <<acAborted, timeoutAborted, reason, termSent,
                            signalled, abortedRunning, active>>
        ELSE IF item.kind = "settle"
        THEN /\ settle(s)
             /\ UNCHANGED <<inflight, logVars, taskVars>>
             /\ UNCHANGED <<acAborted, timeoutAborted, reason, termSent, signalled,
                            abortedRunning, active>>
        ELSE /\ inflight' = [inflight EXCEPT ![s] = Just(data)]
             /\ logCall(s, data)
             /\ UNCHANGED <<settled, promise>>
  /\ UNCHANGED <<pc, listener, proc, exitCode, exitPromise, chainRejected, phase, buffer,
                 result, received, budget>>
  /\ UNCHANGED <<reqAborted, wired, hasTimeout, hpc, closed, outcome, mode, sideVars>>

\* (mutant) a log callback with no try/catch around its send.
logRejects_NoCatch(sendOk) == ~sendOk

\* Whether the promise returned by the log callback rejects, given how its
\* notification send went: the handlers' callbacks catch a rejected send, the
\* callback of another caller may let it through.
logRejects(sendOk) == mode = "callback" /\ ~sendOk

\* The promise returned by log settles, after its send (sendNotification,
\* sendLoggingMessage) has resolved or rejected; the collector of
\* executor.test.ts sends nothing.
LogDone(s) ==
  /\ Quiet /\ inflight[s] # Nothing
  /\ inflight' = [inflight EXCEPT ![s] = Nothing]
  /\ \E sendOk \in (IF mode = "direct" THEN {TRUE} ELSE BOOLEAN) :
       /\ sendFailed' = (sendFailed \/ ~sendOk)
       /\ chainRejected' = [chainRejected EXCEPT ![s] = @ \/ logRejects(sendOk)]
  /\ UNCHANGED <<pc, listener, proc, signalled, termSent, exitCode, exitPromise,
                 phase, buffer, pending, settled, promise, result, received,
                 budget, abortedRunning>>
  /\ UNCHANGED <<entries, lines, lineCount>>
  /\ UNCHANGED <<sigVars, taskVars, srvVars, mode, sideVars>>

\* The codes of a 'close' event: Just(n), or Nothing for null (ended by a signal).
ExitCodes == {Just(0), Just(42), Nothing}

\* The process ends by itself; what it ended with is seen by the program in
\* the 'close' event only.
ProcExit ==
  /\ Quiet /\ proc = "running"
  /\ proc' = "exited"
  /\ UNCHANGED <<pc, listener, signalled, termSent, exitCode, exitPromise, chainRejected, phase, buffer,
                 pending, inflight, settled, promise, result, received, budget,
                 abortedRunning>>
  /\ UNCHANGED <<sigVars, taskVars, logVars, srvVars, mode, sideVars>>

\* The child could not be started: it emits 'error'.  No listener for it is
\* registered, so the event is an uncaught exception; 'close' is not emitted.
ProcError ==
  /\ ErrorReady
  /\ proc' = "errored"
  /\ UNCHANGED <<pc, listener, signalled, termSent, exitCode, exitPromise,
                 chainRejected, phase, buffer, pending, inflight, settled,
                 promise, result, received, budget, abortedRunning>>
  /\ UNCHANGED <<sigVars, taskVars, logVars, srvVars, mode, sideVars>>

\* The process dies of the SIGTERM sent to its group.
ProcKilled ==
  /\ Quiet /\ proc = "running" /\ signalled
  /\ proc' = "exited"
  /\ UNCHANGED <<pc, listener, signalled, termSent, exitCode, exitPromise, chainRejected, phase, buffer,
                 pending, inflight, settled, promise, result, received, budget,
                 abortedRunning>>
  /\ UNCHANGED <<sigVars, taskVars, logVars, srvVars, mode, sideVars>>

\* (mutant) code ?? 0
ProcClose_NullAsZero ==
  /\ Quiet /\ proc = "exited" /\ \A s \in Streams : phase[s] = "closed"
  /\ proc' = "closed"
  /\ \E code \in ExitCodes :
       /\ exitCode' = Just(code)
       /\ exitPromise' = Just(IF code = Nothing THEN 0 ELSE code[1])
  /\ UNCHANGED <<pc, listener, signalled, termSent, chainRejected, phase,
                 buffer, pending, inflight, settled, promise, result, received,
                 budget, abortedRunning>>
  /\ UNCHANGED <<sigVars, taskVars, logVars, srvVars, mode, sideVars>>

\* proc.on("close"): the process has ended and its streams are closed.
ProcClose ==
  /\ Quiet /\ proc = "exited" /\ \A s \in Streams : phase[s] = "closed"
  /\ proc' = "closed"
  /\ \E code \in ExitCodes :
       /\ exitCode' = Just(code)
       /\ exitPromise' = Just(IF code = Nothing THEN 1 ELSE code[1])
  /\ UNCHANGED <<pc, listener, signalled, termSent, chainRejected, phase,
                 buffer, pending, inflight, settled, promise, result, received,
                 budget, abortedRunning>>
  /\ UNCHANGED <<sigVars, taskVars, logVars, srvVars, mode, sideVars>>

\* await Promise.all([...]) is over.
AwaitStreams ==
  /\ StreamsReady
  /\ pc' = IF \E s \in Streams : promise[s] = "rejected" THEN "threw" ELSE "exit"
  /\ UNCHANGED <<listener, proc, signalled, termSent, exitCode, exitPromise, chainRejected,
                 phase, buffer, pending, inflight, settled, promise, result,
                 received, budget, abortedRunning>>
  /\ UNCHANGED <<sigVars, taskVars, logVars, srvVars, mode, sideVars>>

\* (mutant) killed is reported only with a non-zero exit code.
AwaitExit_KilledFromCode ==
  /\ ExitReady
  /\ listener' = FALSE
  /\ result' = Just([exitCode |-> exitPromise[1], killed |-> (signalAborted /\ exitPromise[1] # 0)])
  /\ pc' = "returned"
  /\ UNCHANGED <<proc, signalled, termSent, exitCode, exitPromise, chainRejected, phase,
                 buffer, pending, inflight, settled, promise, received, budget,
                 abortedRunning>>
  /\ UNCHANGED <<sigVars, taskVars, logVars, srvVars, mode, sideVars>>

\* await exitPromise is over: remove the listener and return.
AwaitExit ==
  /\ ExitReady
  /\ listener' = FALSE
  /\ result' = Just([exitCode |-> exitPromise[1], killed |-> signalAborted])
  /\ pc' = "returned"
  /\ UNCHANGED <<proc, signalled, termSent, exitCode, exitPromise, chainRejected, phase,
                 buffer, pending, inflight, settled, promise, received, budget,
                 abortedRunning>>
  /\ UNCHANGED <<sigVars, taskVars, logVars, srvVars, mode, sideVars>>

--------------------------------------------------------------------------
(* A direct caller, as in executor.test.ts: an AbortController of its own and
   a log callback that collects the entries. *)

CallDirect ==
  /\ mode \in {"direct", "callback"}
  /\ executeCommand(acAborted)
  /\ UNCHANGED <<sigVars, taskVars, logVars, srvVars, mode, sideVars>>

AbortDirect ==
  /\ mode \in {"direct", "callback"} /\ Quiet /\ ~acAborted
  /\ Activate(TRUE, timeoutAborted)
  /\ UNCHANGED <<pc, listener, proc, exitCode, exitPromise, chainRejected, phase, buffer,
                 pending, inflight, settled, promise, result, received, budget>>
  /\ UNCHANGED <<reqAborted, wired, hasTimeout>>
  /\ UNCHANGED <<taskVars, logVars, srvVars, mode, sideVars>>

--------------------------------------------------------------------------
(* The execute handlers: registerSyncMode (server.ts) and registerTaskExecute /
   runBackgroundExecution (task.ts). *)

\* What the handler finds after `await loadCommands`.
LoadResults == {"ok", "unknown", "configError"}

\* (mutant) the status line alone, without the transcript.
Res_NoTranscript(kind, code, isError) ==
  [kind |-> kind, code |-> code, isError |-> isError, output |-> <<>>]

\* A tool result: the status line (kind, exit code), isError and the transcript.
Res(kind, code, isError) ==
  [kind |-> kind, code |-> code, isError |-> isError, output |-> lines]
Ret(how, res) == [how |-> how, res |-> res]

\* new AbortController, activeExecutions.set, the listener on extra.signal,
\* the optional timeout signal.
compose(timeout) ==
  /\ acAborted' = FALSE
  /\ active' = TRUE
  /\ wired' = ~reqAborted
  /\ hasTimeout' = timeout
  /\ timeoutAborted' = FALSE
  /\ reason' = "none"
  /\ UNCHANGED reqAborted

\* registerSyncMode's execute handler, from the end of loadCommands to the
\* first await of executeCommand.
HandlerSync ==
  /\ mode = "sync" /\ Quiet /\ hpc = "load"
  /\ \E r \in LoadResults, timeout \in BOOLEAN :
       IF r # "ok"
       THEN /\ outcome' = Just(Ret("returned", Res(r, 0, TRUE)))
            /\ hpc' = "done"
            /\ UNCHANGED <<execVars, sigVars, active>>
       ELSE /\ compose(timeout)
            /\ executeCommand(FALSE)
            /\ hpc' = "run"
            /\ UNCHANGED outcome
  /\ UNCHANGED <<taskVars, logVars, closed, mode, sideVars>>

\* (mutant) the exit code is looked at before killed.
SyncFinish_ExitFirst ==
  /\ mode = "sync" /\ HandlerReady
  /\ LET timedOut == hasTimeout /\ timeoutAborted
         res == IF pc = "threw" THEN Res("error", 0, TRUE)
                ELSE IF result[1].exitCode # 0
                  THEN Res("exit", result[1].exitCode, TRUE)
                ELSE IF result[1].killed
                  THEN Res(IF timedOut THEN "timedout" ELSE "cancelled", 0, TRUE)
                ELSE Res("completed", 0, FALSE)
     IN outcome' = Just(Ret("returned", res))
  /\ active' = FALSE
  /\ hpc' = "done"
  /\ UNCHANGED <<execVars, sigVars, taskVars, logVars, closed, mode, sideVars>>

\* (mutant) timed out is decided by the source that aborted the signal first.
SyncFinish_ByReason ==
  /\ mode = "sync" /\ HandlerReady
  /\ LET timedOut == reason = "timeout"
         res == IF pc = "threw" THEN Res("error", 0, TRUE)
                ELSE IF result[1].killed
                  THEN Res(IF timedOut THEN "timedout" ELSE "cancelled", 0, TRUE)
                ELSE IF result[1].exitCode # 0
                  THEN Res("exit", result[1].exitCode, TRUE)
                ELSE Res("completed", 0, FALSE)
     IN outcome' = Just(Ret("returned", res))
  /\ active' = FALSE
  /\ hpc' = "done"
  /\ UNCHANGED <<execVars, sigVars, taskVars, logVars, closed, mode, sideVars>>

\* The handler after executeCommand has returned or thrown.
SyncFinish ==
  /\ mode = "sync" /\ HandlerReady
  /\ LET timedOut == hasTimeout /\ timeoutAborted
         res == IF pc = "threw" THEN Res("error", 0, TRUE)
                ELSE IF result[1].killed
                  THEN Res(IF timedOut THEN "timedout" ELSE "cancelled", 0, TRUE)
                ELSE IF result[1].exitCode # 0
                  THEN Res("exit", result[1].exitCode, TRUE)
                ELSE Res("completed", 0, FALSE)
     IN outcome' = Just(Ret("returned", res))
  /\ active' = FALSE
  /\ hpc' = "done"
  /\ UNCHANGED <<execVars, sigVars, taskVars, logVars, closed, mode, sideVars>>

\* (mutant) the task is created before the command name is resolved.
CreateTask_TaskFirst ==
  /\ mode = "task" /\ Quiet /\ hpc = "load"
  /\ \E r \in LoadResults, timeout \in BOOLEAN :
       IF r # "ok"
       THEN /\ outcome' = Just(Ret("thrown", Res(r, 0, TRUE)))
            /\ hpc' = "done"
            /\ task' = Just([status |-> "submitted", statusMessage |-> Nothing])
            /\ UNCHANGED <<execVars, sigVars, active>>
       ELSE /\ task' = Just([status |-> "submitted", statusMessage |-> Nothing])
            /\ compose(timeout)
            /\ executeCommand(FALSE)
            /\ hpc' = "run"
            /\ outcome' = Just(Ret("task", Res("submitted", 0, FALSE)))
  /\ UNCHANGED <<taskResult, storeCalls, logVars, closed, mode, sideVars>>

\* createTask, from the end of loadCommands to its return; the call of
\* runBackgroundExecution runs up to the first await of executeCommand.
CreateTask ==
  /\ mode = "task" /\ Quiet /\ hpc = "load"
  /\ \E r \in LoadResults, timeout \in BOOLEAN :
       IF r # "ok"
       THEN /\ outcome' = Just(Ret("thrown", Res(r, 0, TRUE)))
            /\ hpc' = "done"
            /\ UNCHANGED <<execVars, sigVars, active, task>>
       ELSE /\ task' = Just([status |-> "submitted", statusMessage |-> Nothing])
            /\ compose(timeout)
            /\ executeCommand(FALSE)
            /\ hpc' = "run"
            /\ outcome' = Just(Ret("task", Res("submitted", 0, FALSE)))
  /\ UNCHANGED <<taskResult, storeCalls, logVars, closed, mode, sideVars>>

\* (mutant) the run writes the terminal status but stores no result.
tryStore_StatusOnly(status, res) ==
  /\ super_updateTaskStatus(status, Nothing)
  /\ storeCalls' = storeCalls + 1
  /\ UNCHANGED taskResult

\* storeTaskResult called in the try block: when it throws, the catch block
\* calls it once more.
tryStore(status, res) ==
  /\ storeTaskResult(status, res)
  /\ storeCalls' = storeCalls + (IF storeAccepts THEN 1 ELSE 2)

\* storeTaskResult called in the catch block.
catchStore(res) ==
  /\ storeTaskResult("failed", res)
  /\ storeCalls' = storeCalls + 1

\* (mutant) the exit code is not looked at.
BgAfterExec_IgnoreExit ==
  /\ mode = "task" /\ HandlerReady
  /\ IF pc = "returned" /\ result[1].killed
     THEN /\ hpc' = "getTask"
          /\ UNCHANGED <<taskVars, active>>
     ELSE /\ IF pc = "threw" THEN catchStore(Res("error", 0, TRUE))
             ELSE tryStore("completed", Res("completed", 0, FALSE))
          /\ active' = FALSE
          /\ hpc' = "done"
  /\ UNCHANGED <<execVars, sigVars, logVars, closed, outcome, mode, sideVars>>

\* runBackgroundExecution after executeCommand has returned or thrown.
BgAfterExec ==
  /\ mode = "task" /\ HandlerReady
  /\ IF pc = "returned" /\ result[1].killed
     THEN /\ hpc' = "getTask"
          /\ UNCHANGED <<taskVars, active>>
     ELSE /\ IF pc = "threw" THEN catchStore(Res("error", 0, TRUE))
             ELSE IF result[1].exitCode # 0
               THEN tryStore("failed", Res("exit", result[1].exitCode, TRUE))
             ELSE tryStore("completed", Res("completed", 0, FALSE))
          /\ active' = FALSE
          /\ hpc' = "done"
  /\ UNCHANGED <<execVars, sigVars, logVars, closed, outcome, mode, sideVars>>

\* (mutant) a killed run is stored as failed without a look at the task.
BgAfterGetTask_NoCheck ==
  /\ mode = "task" /\ GetTaskReady
  /\ LET timedOut == hasTimeout /\ timeoutAborted
     IN tryStore("failed",
          Res(IF timedOut THEN "timedout" ELSE "cancelled", 0, TRUE))
  /\ active' = FALSE
  /\ hpc' = "done"
  /\ UNCHANGED <<execVars, sigVars, logVars, closed, outcome, mode, sideVars>>

\* (mutant) a killed run that was not timed out is stored as cancelled.
BgAfterGetTask_AsCancelled ==
  /\ mode = "task" /\ GetTaskReady
  /\ IF task # Nothing /\ task[1].status = "cancelled"
     THEN UNCHANGED taskVars
     ELSE LET timedOut == hasTimeout /\ timeoutAborted
          IN tryStore(IF timedOut THEN "failed" ELSE "cancelled",
               Res(IF timedOut THEN "timedout" ELSE "cancelled", 0, TRUE))
  /\ active' = FALSE
  /\ hpc' = "done"
  /\ UNCHANGED <<execVars, sigVars, logVars, closed, outcome, mode, sideVars>>

\* runBackgroundExecution after `await taskStore.getTask` on a killed run.
BgAfterGetTask ==
  /\ mode = "task" /\ GetTaskReady
  /\ IF task # Nothing /\ task[1].status = "cancelled"
     THEN UNCHANGED taskVars
     ELSE LET timedOut == hasTimeout /\ timeoutAborted
          IN tryStore("failed",
               Res(IF timedOut THEN "timedout" ELSE "cancelled", 0, TRUE))
  /\ active' = FALSE
  /\ hpc' = "done"
  /\ UNCHANGED <<execVars, sigVars, logVars, closed, outcome, mode, sideVars>>

\* tasks/cancel: the SDK calls taskStore.updateTaskStatus(taskId, "cancelled").
ExternalCancel ==
  /\ mode = "task" /\ Quiet /\ task # Nothing
  /\ updateTaskStatus("cancelled", Nothing)
  /\ UNCHANGED <<pc, listener, proc, exitCode, exitPromise, chainRejected, phase, buffer,
                 pending, inflight, settled, promise, result, received, budget>>
  /\ UNCHANGED <<reqAborted, wired, hasTimeout, taskResult, storeCalls,
                 logVars, hpc, closed, outcome, mode, sideVars>>

\* extra.signal fires: the request was cancelled or its connection dropped.
ReqAbort ==
  /\ mode \in {"sync", "task"} /\ Quiet /\ ~reqAborted
  /\ mode = "sync" => hpc # "done"
  /\ reqAborted' = TRUE
  /\ IF wired THEN Activate(TRUE, timeoutAborted)
     ELSE UNCHANGED <<acAborted, timeoutAborted, reason, termSent, signalled,
                      abortedRunning>>
  /\ UNCHANGED <<pc, listener, proc, exitCode, exitPromise, chainRejected, phase, buffer,
                 pending, inflight, settled, promise, result, received, budget>>
  /\ UNCHANGED <<wired, hasTimeout, taskVars, logVars, srvVars, mode, sideVars>>

\* AbortSignal.timeout fires.
TimeoutFire ==
  /\ Quiet /\ hasTimeout /\ ~timeoutAborted
  /\ Activate(acAborted, TRUE)
  /\ UNCHANGED <<pc, listener, proc, exitCode, exitPromise, chainRejected, phase, buffer,
                 pending, inflight, settled, promise, result, received, budget>>
  /\ UNCHANGED <<reqAborted, wired, hasTimeout, taskVars, logVars, srvVars,
                 mode, sideVars>>

\* (mutant) the table is cleared without aborting its controllers.
SessionClose_NoAbort ==
  /\ mode \in {"sync", "task"} /\ Quiet /\ ~closed
  /\ closed' = TRUE
  /\ UNCHANGED <<acAborted, timeoutAborted, reason, termSent, signalled,
                      abortedRunning>>
  /\ active' = FALSE
  /\ IF mode = "task"
     THEN task' = Nothing /\ taskResult' = Nothing
     ELSE UNCHANGED <<task, taskResult>>
  /\ UNCHANGED <<pc, listener, proc, exitCode, exitPromise, chainRejected, phase, buffer,
                 pending, inflight, settled, promise, result, received, budget>>
  /\ UNCHANGED <<reqAborted, wired, hasTimeout, storeCalls, logVars, hpc,
                 outcome, mode, sideVars>>

\* server.server.onclose: abort every controller of the table, clear it, and
\* in task mode clean the task store up.
SessionClose ==
  /\ mode \in {"sync", "task"} /\ Quiet /\ ~closed
  /\ closed' = TRUE
  /\ IF active THEN Activate(TRUE, timeoutAborted)
     ELSE UNCHANGED <<acAborted, timeoutAborted, reason, termSent, signalled,
                      abortedRunning>>
  /\ active' = FALSE
  /\ IF mode = "task"
     THEN task' = Nothing /\ taskResult' = Nothing
     ELSE UNCHANGED <<task, taskResult>>
  /\ UNCHANGED <<pc, listener, proc, exitCode, exitPromise, chainRejected, phase, buffer,
                 pending, inflight, settled, promise, result, received, budget>>
  /\ UNCHANGED <<reqAborted, wired, hasTimeout, storeCalls, logVars, hpc,
                 outcome, mode, sideVars>>

ExecInit ==
  /\ pc = "init" /\ listener = FALSE /\ proc = "none" /\ signalled = FALSE
  /\ termSent = 0 /\ exitCode = Nothing /\ exitPromise = Nothing
  /\ phase = [s \in Streams |-> "open"]
  /\ buffer = [s \in Streams |-> <<>>]
  /\ pending = [s \in Streams |-> <<>>]
  /\ inflight = [s \in Streams |-> Nothing]
  /\ settled = [s \in Streams |-> FALSE]
  /\ promise = [s \in Streams |-> "pending"]
  /\ result = Nothing
  /\ received = [s \in Streams |-> <<>>]
  /\ abortedRunning = FALSE
  /\ chainRejected = [s \in Streams |-> FALSE]

HandlerInit ==
  /\ acAborted = FALSE /\ reqAborted = FALSE /\ wired = FALSE
  /\ hasTimeout = FALSE /\ timeoutAborted = FALSE /\ reason = "none"
  /\ task = Nothing /\ taskResult = Nothing /\ storeCalls = 0
  /\ entries = <<>> /\ lines = <<>> /\ lineCount = 0 /\ sendFailed = FALSE
  /\ active = FALSE /\ closed = FALSE /\ outcome = Nothing

\* One execution is looked at: no other execution, no registry call.
AppInit ==
  /\ config = <<>> /\ adds = <<>> /\ tui = <<>> /\ watch = <<>>

SideInit ==
  /\ AppInit
  /\ execs = <<>>
  /\ registryFile = Nothing
  /\ regCall = [op |-> "none", filePath |-> <<>>, ret |-> "none"]

Init ==
  /\ ExecInit /\ HandlerInit /\ SideInit
  /\ hpc = "idle"
  /\ mode = "direct"
  /\ budget = MaxBytes

\* Bytes the command of one handled request may write over both streams.
MaxHandlerBytes == 1

ServerInit ==
  /\ ExecInit /\ HandlerInit /\ SideInit
  /\ hpc = "load"
  /\ mode \in {"sync", "task"}
  /\ budget = MaxHandlerBytes

ExecNext ==
  \/ \E s \in Streams : Data(s)
  \/ \E s \in Streams : End(s)
  \/ \E s \in Streams : Close(s)
  \/ \E s \in Streams : Error(s)
  \/ \E s \in Streams : Chain(s)
  \/ \E s \in Streams : LogDone(s)
  \/ ProcExit
  \/ ProcError
  \/ ProcKilled
  \/ ProcClose
  \/ AwaitStreams
  \/ AwaitExit

Next ==
  \/ CallDirect
  \/ AbortDirect
  \/ ExecNext

Spec == Init /\ [][Next]_vars

\* What the scheduling guarantees: promise continuations run, a log call
\* settles, a pending 'error' event is emitted, a process that received
\* SIGTERM ends, the streams of an ended
\* process close and its 'close' event is delivered.  A process that is not
\* signalled may run forever.
Fairness ==
  /\ \A s \in Streams : WF_vars(Chain(s)) /\ WF_vars(LogDone(s)) /\ WF_vars(Close(s))
  /\ WF_vars(ProcKilled) /\ WF_vars(ProcClose) /\ WF_vars(ProcError)
  /\ WF_vars(AwaitStreams) /\ WF_vars(AwaitExit)

FairSpec == Spec /\ Fairness

\* Bytes the command may write when the caller's log callback may reject.
MaxCallbackBytes == 2

\* executeCommand called with a log callback of the caller's own.
CallbackInit ==
  /\ ExecInit /\ HandlerInit /\ SideInit
  /\ hpc = "idle"
  /\ mode = "callback"
  /\ budget = MaxCallbackBytes

CallbackSpec == CallbackInit /\ [][Next]_vars /\ Fairness

ServerNext ==
  \/ HandlerSync
  \/ SyncFinish
  \/ CreateTask
  \/ BgAfterExec
  \/ BgAfterGetTask
  \/ ExternalCancel
  \/ ReqAbort
  \/ TimeoutFire
  \/ SessionClose
  \/ ExecNext

ServerSpec == ServerInit /\ [][ServerNext]_vars

\* Bytes the command of a background task may write when both of its streams
\* are to have a line.
MaxTaskBytes == 2

\* An execute request in task mode whose command writes on both streams.
TaskInit ==
  /\ ExecInit /\ HandlerInit /\ SideInit
  /\ hpc = "load"
  /\ mode = "task"
  /\ budget = MaxTaskBytes

TaskNext ==
  \/ CreateTask
  \/ BgAfterExec
  \/ BgAfterGetTask
  \/ ExternalCancel
  \/ ReqAbort
  \/ TimeoutFire
  \/ SessionClose
  \/ ExecNext

TaskSpec == TaskInit /\ [][TaskNext]_vars

--------------------------------------------------------------------------
(* Properties of executeCommand, checked on a direct caller (Spec, FairSpec) *)

\* The log calls made for one stream, in call order.
RECURSIVE dispatched(_, _)
dispatched(es, s) ==
  IF es = <<>> THEN <<>>
  ELSE IF Head(es).logger = s THEN <<Head(es).data>> \o dispatched(Tail(es), s)
  ELSE dispatched(Tail(es), s)

IsPrefix(p, q) == Len(p) <= Len(q) /\ SubSeq(q, 1, Len(p)) = p

NeverRan == Just([exitCode |-> -1, killed |-> TRUE])

\* No log call of stream s is in flight or still chained.
Drained(s) ==
  /\ inflight[s] = Nothing
  /\ \A i \in DOMAIN pending[s] : pending[s][i].kind = "settle"

\* C1: a call with the signal already active returns {exitCode: -1, killed:
\* true}; then no process was spawned, no signal sent and log never called.
C1_PreAborted ==
  /\ [][(pc = "init" /\ signalAborted /\ pc' # "init")
          => (pc' = "returned" /\ result' = NeverRan)]_vars
  /\ [](result = NeverRan =>
          /\ proc = "none" /\ termSent = 0 /\ entries = <<>>
          /\ \A s \in Streams : inflight[s] = Nothing /\ pending[s] = <<>>)

C1_Witness == mode = "direct" /\ acAborted /\ result = NeverRan

\* C2: executeCommand leaves `await Promise.all` (and so reads the exit code)
\* only with both stream promises resolved and no log call in flight or still
\* chained, and after it has returned a result no log call is made.
C2_ReturnsAfterDrain ==
  /\ [](pc \in {"exit", "returned"} /\ proc # "none" =>
          \A s \in Streams : promise[s] = "resolved" /\ Drained(s))
  /\ [][pc = "returned" => entries' = entries]_vars

C2_Witness ==
  /\ pc = "returned" /\ result # NeverRan
  /\ dispatched(entries, "stdout") # <<>> /\ dispatched(entries, "stderr") # <<>>

\* C3: the log calls of one stream are made in the order of the non-empty lines
\* received on it, whatever the chunks were, and a log call of a stream is made
\* only when no earlier one of that stream is in flight.
C3_OrderedNoOverlap ==
  /\ [](\A s \in Streams :
          IsPrefix(dispatched(entries, s), SelectNonEmpty(split(received[s]))))
  /\ [][\A s \in Streams :
          dispatched(entries', s) # dispatched(entries, s)
            => /\ inflight[s] = Nothing
               /\ Len(dispatched(entries', s)) = Len(dispatched(entries, s)) + 1]_vars

\* Two different lines of stdout dispatched in order, the second in flight.
C3_Witness ==
  /\ dispatched(entries, "stdout") = << <<"a">>, <<"a", "a">> >>
  /\ inflight["stdout"] = Just(<<"a", "a">>)

--------------------------------------------------------------------------
(* Properties of the execute handlers and the task store (ServerSpec) *)

status == task[1].status
Stored == task # Nothing

\* C5: once the stored task is completed, failed or cancelled its status is
\* never written again (a torn-down session drops the task as a whole).
C5_TerminalIsFinal ==
  [][(Stored /\ isTerminal(status)) => (~Stored' \/ status' = status)]_vars

\* A log line that came after the cancel: counted, its status update refused.
C5_Witness ==
  /\ Stored /\ status = "cancelled"
  /\ lineCount = 1 /\ task[1].statusMessage = Nothing

\* C6: the step that writes cancelled to the task of a running execution aborts
\* its controller, signals the running process group and drops the table entry;
\* the task stays cancelled.
C6_CancelAborts ==
  /\ [][(Stored /\ Stored' /\ status # "cancelled" /\ status' = "cancelled")
          => /\ acAborted' /\ ~active'
             /\ proc = "running" => signalled']_vars
  /\ [][(Stored /\ status = "cancelled") => (~Stored' \/ status' = "cancelled")]_vars
  /\ [](Stored /\ status = "cancelled" => acAborted /\ ~active)

C6_Witness ==
  /\ Stored /\ status = "cancelled" /\ proc = "running" /\ signalled
  /\ termSent = 1 /\ ~reqAborted /\ ~timeoutAborted /\ ~active

\* C7 (as claimed): while a handler runs a command for a request whose signal is
\* active, the signal handed to executeCommand is active and a running process
\* has been signalled.
C7_RequestAbortReaches ==
  (mode \in {"sync", "task"} /\ hpc = "run" /\ reqAborted)
    => /\ signalAborted
       /\ proc = "running" => signalled

C9_CancelledNotOverwritten ==
  (mode = "task" /\ hpc = "done" /\ result # Nothing /\ result[1].killed
     /\ Stored /\ status = "cancelled")
    => storeCalls = 0 /\ taskResult = Nothing

C9_Witness ==
  /\ mode = "task" /\ hpc = "done" /\ result # Nothing /\ result[1].killed
  /\ Stored /\ status = "cancelled"

\* C10: a finished run that was not killed leaves its task completed exactly
\* when the exit code is 0 and failed otherwise; a thrown execution leaves it
\* failed; the stored result has the matching status line and isError on
\* failures.
C10_ExitClassification ==
  (mode = "task" /\ hpc = "done" /\ Stored) =>
    /\ (pc = "returned" /\ ~result[1].killed /\ result[1].exitCode = 0) =>
         /\ status = "completed"
         /\ taskResult = Just([kind |-> "completed", code |-> 0,
                               isError |-> FALSE, output |-> lines])
    /\ (pc = "returned" /\ ~result[1].killed /\ result[1].exitCode # 0) =>
         /\ status = "failed"
         /\ taskResult = Just([kind |-> "exit", code |-> result[1].exitCode,
                               isError |-> TRUE, output |-> lines])
    /\ pc = "threw" =>
         /\ status = "failed"
         /\ taskResult # Nothing
         /\ taskResult[1].kind = "error" /\ taskResult[1].isError

C10_Witness ==
  /\ mode = "task" /\ hpc = "done" /\ Stored /\ status = "failed"
  /\ pc = "returned" /\ result[1] = [exitCode |-> 42, killed |-> FALSE]
  /\ lines # <<>>

--------------------------------------------------------------------------
(* Error handling and classification (ServerSpec; C14 on FairSpec) *)

\* What createTask or the execute handler gave back to its caller.
how == outcome[1].how
res == outcome[1].res
Thrown == outcome # Nothing /\ how = "thrown"

\* C11: in task mode a failed resolution (unknown name, config not loadable)
\* makes createTask throw with no task created, no controller registered and no
\* process spawned; a stored task always has a run behind it, so none stays
\* submitted because its command was not resolved.
C11_FailedResolutionCreatesNothing ==
  /\ [][(mode = "task" /\ hpc = "load" /\ hpc' = "done")
          => /\ Thrown'
             /\ task' = task /\ taskResult' = taskResult
             /\ active' = active /\ proc' = proc /\ pc' = pc]_vars
  /\ [](mode = "task" /\ Thrown => ~Stored /\ ~active /\ proc = "none")
  /\ [](mode = "task" /\ Stored => pc # "init" /\ ~Thrown)

C11_Witness ==
  /\ mode = "task" /\ hpc = "done" /\ Thrown /\ res.kind = "unknown"
  /\ ~Stored /\ ~active /\ proc = "none"

\* C12: the streaming handler returns cancelled / timed out when killed is true,
\* whatever the exit code; failure when not killed and the exit code is not 0
\* or the execution threw; success when not killed and the exit code is 0; only
\* success has no isError.
C12_SyncClassification ==
  (mode = "sync" /\ hpc = "done" /\ pc # "init") =>
    /\ how = "returned"
    /\ (pc = "returned" /\ result[1].killed) =>
         res.kind \in {"cancelled", "timedout"} /\ res.isError
    /\ (pc = "returned" /\ ~result[1].killed /\ result[1].exitCode # 0) =>
         res.kind = "exit" /\ res.code = result[1].exitCode /\ res.isError
    /\ (pc = "returned" /\ ~result[1].killed /\ result[1].exitCode = 0) =>
         res.kind = "completed" /\ ~res.isError
    /\ pc = "threw" => res.kind = "error" /\ res.isError
    /\ ~res.isError <=> res.kind = "completed"

\* Killed with exit code 0: classified as cancelled.
C12_Witness ==
  /\ mode = "sync" /\ hpc = "done" /\ pc = "returned"
  /\ result[1] = [exitCode |-> 0, killed |-> TRUE]
  /\ res.kind = "cancelled" /\ res.isError

\* C13 (as claimed): no exception is left uncaught by the program, the streaming
\* handler always returns a result, and createTask throws only for a command
\* that was not resolved.
C13_OutcomesClassified ==
  /\ proc # "errored"
  /\ (mode = "sync" /\ hpc = "done") => how = "returned"
  /\ (mode = "task" /\ Thrown) => pc = "init"

\* C14 (as claimed): when the child cannot be started, executeCommand
\* terminates with an error for its caller to classify.
C14_SpawnFailureReported == (proc = "failed") ~> (pc = "threw")

\* C15: a stream error while the signal is active only chains settle after the
\* pending log calls and never rejects; a stream error while it is not active
\* rejects the stream's promise; executeCommand throws only on such a
\* rejection, and the handlers then give a failure classification.
C15_StreamErrorHandling ==
  /\ [][\A s \in Streams : (phase[s] = "open" /\ phase'[s] = "errored") =>
          IF signalAborted
          THEN /\ promise'[s] = promise[s]
               /\ pending'[s] = Append(pending[s], SettleItem)
          ELSE promise'[s] = "rejected"]_vars
  /\ [](pc = "threw" <=> (pc # "streams" /\ \E s \in Streams : promise[s] = "rejected"))
  /\ [](hpc = "done" /\ pc = "threw" =>
          /\ mode = "sync" => how = "returned" /\ res.kind = "error" /\ res.isError
          /\ (mode = "task" /\ Stored) =>
               /\ status = "failed" /\ taskResult # Nothing
               /\ taskResult[1].kind = "error" /\ taskResult[1].isError)

\* A stream that errored while the signal was active and then settled.
C15_Witness ==
  /\ \E s \in Streams :
       phase[s] = "errored" /\ settled[s] /\ promise[s] = "resolved"
  /\ signalAborted /\ mode = "sync" /\ hpc = "run"

\* C16: a rejected send leaves the log callback resolving: the step in which a
\* log call settles changes neither the transcript nor the callbacks chained
\* nor executeCommand; the chain of a stream is never rejected, the transcript
\* only grows, and a run with a rejected send is classified from its result
\* alone.
C16_SendFailureSwallowed ==
  /\ [][\A s \in Streams : (inflight[s] # Nothing /\ inflight'[s] = Nothing) =>
          /\ lines' = lines /\ pending' = pending /\ promise' = promise
          /\ pc' = pc /\ task' = task]_vars
  /\ [](\A s \in Streams : ~chainRejected[s])
  /\ [][IsPrefix(lines, lines')]_vars
  /\ []((sendFailed /\ mode = "sync" /\ hpc = "done" /\ pc = "returned"
          /\ ~result[1].killed) =>
            /\ res.output = lines
            /\ res.kind = IF result[1].exitCode = 0 THEN "completed" ELSE "exit")
  /\ []((sendFailed /\ mode = "task" /\ hpc = "done" /\ pc = "returned"
          /\ ~result[1].killed /\ Stored) =>
            /\ taskResult # Nothing /\ taskResult[1].output = lines
            /\ status = IF result[1].exitCode = 0 THEN "completed" ELSE "failed")

\* A run whose only send was rejected: the line is in the transcript of a
\* success.
C16_Witness ==
  /\ sendFailed /\ mode = "sync" /\ hpc = "done"
  /\ res.kind = "completed" /\ res.output = <<<<"stdout", <<"a">>>>>>

\* The handler has composed the signal of this execution.
Composed == hpc \in {"run", "getTask", "done"} /\ pc # "init"

\* C17: once composed, the signal handed to executeCommand is active after any
\* step in which the controller is aborted, the timeout fires, the request
\* signal fires or the session closes with the execution in the table; it never
\* becomes inactive again, and its listener sends at most one SIGTERM.
C17_CompositeLatch ==
  /\ [][(Composed /\ \/ acAborted' /\ ~acAborted
                     \/ hasTimeout /\ timeoutAborted' /\ ~timeoutAborted
                     \/ reqAborted' /\ ~reqAborted
                     \/ closed' /\ ~closed /\ active)
          => signalAborted']_vars
  /\ [][signalAborted => signalAborted']_vars
  /\ [][reason # "none" => reason' = reason]_vars
  /\ [](signalAborted <=> reason # "none")
  /\ [](termSent <= 1)

\* Cancel and timeout have both fired, the process group was signalled once.
C17_Witness ==
  /\ Composed /\ acAborted /\ hasTimeout /\ timeoutAborted /\ termSent = 1

\* The classification a killed run was reported with, if any.
Reported ==
  IF mode = "sync" THEN outcome # Nothing /\ how = "returned"
  ELSE taskResult # Nothing
reportedKind == IF mode = "sync" THEN res.kind ELSE taskResult[1].kind
KilledReported ==
  /\ hpc = "done" /\ pc = "returned" /\ result[1].killed /\ Reported

\* C18 (as claimed): a killed run is reported as timed out exactly when the
\* timeout is the source that aborted the signal.
C18_TimedOutIffTimeoutFiredFirst ==
  KilledReported => (reportedKind = "timedout" <=> reason = "timeout")

\* C18 (amended): a killed run is reported as timed out exactly when the timeout
\* signal is active at the time the run is classified, and as cancelled
\* otherwise; a run reported as cancelled was aborted by its controller.
C18_TimedOutIffTimeoutActive ==
  /\ [][(hpc # "done" /\ KilledReported') =>
          (reportedKind' = "timedout" <=> (hasTimeout /\ timeoutAborted))]_vars
  /\ [](KilledReported => reportedKind \in {"timedout", "cancelled"})
  /\ [](KilledReported /\ reportedKind = "timedout" => hasTimeout /\ timeoutAborted)
  /\ [](KilledReported /\ reportedKind = "cancelled" => acAborted /\ reason = "cancel")

\* The controller was aborted first, the timeout fired before the run was
\* classified: reported as timed out.
C18_Witness ==
  /\ KilledReported /\ mode = "sync" /\ reportedKind = "timedout"
  /\ reason = "cancel"

--------------------------------------------------------------------------
(* The result of executeCommand (Spec) *)

\* C19: the result of a run that spawned a process has killed equal to
\* signal.aborted at the time of the return, whatever the exit code: killed is
\* true only if the signal is active, and false if it has not become active.
C19_KilledIffSignalActive ==
  /\ [][(pc = "exit" /\ pc' = "returned") =>
          /\ result'[1].killed = signalAborted
          /\ result'[1].exitCode = exitPromise[1]]_vars
  /\ [](pc = "returned" /\ result[1].killed => signalAborted)
  /\ [](pc = "returned" /\ proc # "none" /\ ~signalAborted => ~result[1].killed)

\* The process ended with code 0 and the signal was active: killed.
C19_Witness ==
  /\ pc = "returned" /\ exitCode = Just(Just(0))
  /\ result[1] = [exitCode |-> 0, killed |-> TRUE]

\* C20: with a signal that has not become active, the result has killed = false
\* and the exit code of the 'close' event, 1 when that code is null.
C20_ExitCodeReported ==
  (pc = "returned" /\ proc # "none" /\ ~signalAborted) =>
    /\ ~result[1].killed
    /\ exitCode # Nothing
    /\ result[1].exitCode = IF exitCode[1] = Nothing THEN 1 ELSE exitCode[1][1]

\* A 'close' event with a null code, no signal: exit code 1.
C20_Witness ==
  /\ pc = "returned" /\ ~signalAborted /\ exitCode = Just(Nothing)
  /\ result[1] = [exitCode |-> 1, killed |-> FALSE]

--------------------------------------------------------------------------
(* Line records of executeCommand (Spec) *)

\* The non-empty lines of everything stream s has received, the unterminated
\* remainder included.
linesOf(s) == SelectNonEmpty(split(received[s]))

\* C21: once a stream has ended with 'end' and its chained callbacks have run,
\* the log calls made for it are exactly the non-empty lines it received, the
\* unterminated remainder last, whatever the chunks were; a command that wrote
\* nothing gets no log call and still returns its exit code.
C21_EndFlushesRemainder ==
  /\ [](\A s \in Streams : (phase[s] = "ended" /\ Drained(s)) =>
          dispatched(entries, s) = linesOf(s))
  /\ []((pc = "returned" /\ proc # "none" /\ \A s \in Streams : received[s] = <<>>)
          => /\ entries = <<>>
             /\ result[1].exitCode = IF exitCode[1] = Nothing THEN 1 ELSE exitCode[1][1])

\* Two lines, the second with no line feed after it: two log calls.
C21_Witness ==
  /\ phase["stdout"] = "ended" /\ Drained("stdout")
  /\ received["stdout"] = <<"a", NL, "a", "a">>
  /\ dispatched(entries, "stdout") = << <<"a">>, <<"a", "a">> >>

\* C22: no log call is made with an empty text, neither for an empty line
\* between line feeds nor for an empty remainder at the end of a stream.
C22_NoEmptyRecord ==
  /\ \A i \in DOMAIN entries : entries[i].data # <<>>
  /\ \A s \in Streams : inflight[s] # Just(<<>>)

\* a, an empty line, a: two log calls, and nothing for the empty remainder.
C22_Witness ==
  /\ phase["stdout"] = "ended" /\ Drained("stdout")
  /\ received["stdout"] = <<"a", NL, NL, "a">>
  /\ dispatched(entries, "stdout") = << <<"a">>, <<"a">> >>

\* C23: every log call of the stdout stream has level info and logger stdout,
\* every log call of the stderr stream level error and logger stderr, and a
\* stream gets no more log calls than it received non-empty lines.
C23_LevelByStream ==
  /\ \A i \in DOMAIN entries :
       /\ entries[i].logger \in Streams
       /\ entries[i].logger = "stdout" => entries[i].level = "info"
       /\ entries[i].logger = "stderr" => entries[i].level = "error"
  /\ \A s \in Streams : Len(dispatched(entries, s)) <= Len(linesOf(s))

\* A terminated line of stdout and the flushed remainder of stderr.
C23_Witness ==
  /\ received["stdout"] = <<"a", NL>> /\ received["stderr"] = <<"a", "a">>
  /\ entries = << [level |-> "info", logger |-> "stdout", data |-> <<"a">>],
                  [level |-> "error", logger |-> "stderr", data |-> <<"a", "a">>] >>

--------------------------------------------------------------------------
(* Session teardown, process ownership, task status (ServerSpec; C25, C27 on
   Spec) *)

\* C24 (as claimed): the step of onclose fires the controller of the running
\* execution, leaves the table empty, and leaves a terminal task and its
\* result as they were.
C24_TeardownKeepsTerminal ==
  [][(closed' /\ ~closed) =>
       /\ ~active' /\ (active => acAborted')
       /\ (Stored /\ isTerminal(status)) =>
            (task' = task /\ taskResult' = taskResult)]_vars

\* C24 (amended): the step of onclose fires the controller of the running
\* execution (a running process that is awaited is signalled) and leaves the
\* table empty; in task mode it purges the task store, so a terminal task is
\* dropped together with its result and is never rewritten.
C24_TeardownAbortsAndPurges ==
  /\ [][(closed' /\ ~closed) =>
          /\ ~active' /\ (active => acAborted' /\ signalAborted')
          /\ (active /\ listener /\ proc = "running") => signalled'
          /\ mode = "task" => (~Stored' /\ taskResult' = Nothing)
          /\ mode = "sync" => outcome' = outcome]_vars
  /\ [][(Stored /\ isTerminal(status)) => (~Stored' \/ task' = task)]_vars

\* A task that had completed, dropped by the teardown.
C24_Witness ==
  /\ closed /\ mode = "task" /\ hpc = "done" /\ ~Stored /\ taskResult = Nothing
  /\ storeCalls = 1 /\ pc = "returned" /\ ~result[1].killed /\ ~acAborted

\* C25 (as claimed): once executeCommand has returned or thrown, the process it
\* spawned is not running.
C25_ProcessEndsWithExecution ==
  pc \in {"returned", "threw"} => proc # "running"

\* C26: the task is created as submitted in the step that spawns the process,
\* with no log line yet; every log call made while the task is stored and not
\* terminal sets it to working with the number of lines so far and the logger
\* and text of that line.
C26_WorkingOnEveryLine ==
  /\ [][(mode = "task" /\ ~Stored /\ Stored') =>
          /\ status' = "submitted" /\ proc = "none"
          /\ lines' = <<>> /\ lineCount' = 0]_vars
  /\ [](mode = "task" /\ proc # "none" => Stored \/ closed)
  /\ [](mode = "task" /\ Stored /\ status = "submitted" => lines = <<>>)
  /\ [][(mode = "task" /\ lines' # lines) =>
          /\ lines' = Append(lines, Last(lines'))
          /\ lineCount' = Len(lines')
          /\ (Stored /\ ~isTerminal(status)) =>
               /\ Stored' /\ status' = "working"
               /\ task'[1].statusMessage =
                    Just([count |-> Len(lines'), logger |-> Last(lines')[1],
                          data |-> Last(lines')[2]])]_vars

C26_Witness ==
  /\ mode = "task" /\ Stored /\ status = "working" /\ proc = "running"
  /\ task[1].statusMessage =
       Just([count |-> 1, logger |-> "stderr", data |-> <<"a">>])

\* C27: a stream is settled only with no log call of it in flight or chained,
\* after 'end' as well as after a 'close' without 'end'; the callbacks chained
\* are only added at the tail and taken from the head, each log callback taken
\* makes its log call, and the step that activates the signal leaves the
\* chained callbacks and the call in flight as they are.
C27_SettleAfterDispatches ==
  /\ [](\A s \in Streams : settled[s] => Drained(s))
  /\ [][\A s \in Streams : pending'[s] # pending[s] =>
          \/ IsPrefix(pending[s], pending'[s])
          \/ /\ pending[s] # <<>> /\ pending'[s] = Tail(pending[s])
             /\ Head(pending[s]).kind # "settle" =>
                  dispatched(entries', s) =
                    Append(dispatched(entries, s),
                           IF Head(pending[s]).kind = "flush" THEN buffer[s]
                           ELSE Head(pending[s]).text)]_vars
  /\ [][signalAborted' # signalAborted =>
          pending' = pending /\ inflight' = inflight /\ entries' = entries]_vars

\* Closed without 'end' after the signal fired: the line chained before is
\* dispatched, the remainder is not, and the stream is settled.
C27_Witness ==
  /\ abortedRunning /\ phase["stdout"] = "closed" /\ settled["stdout"]
  /\ received["stdout"] = <<"a", NL, "a">>
  /\ dispatched(entries, "stdout") = << <<"a">> >>

\* The lines of stream s in a transcript, in order.
RECURSIVE transcriptOf(_, _)
transcriptOf(ls, s) ==
  IF ls = <<>> THEN <<>>
  ELSE IF Head(ls)[1] = s THEN <<Head(ls)[2]>> \o transcriptOf(Tail(ls), s)
  ELSE transcriptOf(Tail(ls), s)

\* The transcript of the result returned (streaming) or stored (task).
reportedOutput == IF mode = "sync" THEN res.output ELSE taskResult[1].output

\* C28: the result a run ends with carries the transcript as it is at that
\* step; the transcript holds, per stream, the non-empty lines received in
\* order and each once; for a run that returned it holds all of them (but the
\* remainder of a stream closed without 'end'), and nothing is added to it
\* afterwards; a rejected send changes none of this.
C28_TranscriptComplete ==
  /\ [][(hpc # "done" /\ hpc' = "done" /\ Reported') => reportedOutput' = lines]_vars
  /\ [](\A s \in Streams : IsPrefix(transcriptOf(lines, s), linesOf(s)))
  /\ []((hpc = "done" /\ pc = "returned" /\ proc # "none" /\ Reported) =>
          /\ reportedOutput = lines
          /\ mode = "task" => Len(lines) = lineCount
          /\ \A s \in Streams :
               transcriptOf(lines, s) \in
                 {linesOf(s), SelectNonEmpty(Front(split(received[s])))})

\* A cancelled task whose one line could not be sent: the line is in the
\* stored result.
C28_Witness ==
  /\ mode = "task" /\ hpc = "done" /\ sendFailed /\ Stored /\ status = "failed"
  /\ taskResult[1].kind = "cancelled"
  /\ taskResult[1].output = << <<"stderr", <<"a">>>> >>

--------------------------------------------------------------------------
(* Several executions of one session: what the execute handlers, the task
   store and onclose keep per execution id (activeExecutions is keyed by the
   execution id in server.ts and by the task id in task.ts). *)

Ids == {"e1", "e2"}
\* Log lines one execution of a pair may dispatch.
MaxPairLines == 1

NoExec ==
  [st |-> "none", ac |-> FALSE, inTable |-> FALSE, req |-> FALSE,
   wired |-> FALSE, hasTimeout |-> FALSE, timeoutAborted |-> FALSE,
   status |-> "none", lines |-> 0]

\* combinedSignal.aborted of an execution
signalOf(e) == e.ac \/ (e.hasTimeout /\ e.timeoutAborted)

pairFrame == <<execVars, sigVars, taskVars, logVars, hpc, active, outcome, mode,
               registryFile, regCall, appVars>>

\* The timeout of a request: none, one that AbortSignal.timeout accepts, or a
\* positive number of seconds whose milliseconds are out of its range, for
\* which it throws.
Timeouts == {"none", "ok", "range"}

\* The handler of a request for execution i, from the resolved command to the
\* call of executeCommand: its controller, its table entry, the listener on
\* its request signal, its timeout, and in task mode its task.  When the
\* timeout signal cannot be made the handler throws there, before its try
\* block, and executeCommand is not called.
StartExecution(i) ==
  /\ execs[i].st = "none"
  /\ \E timeout \in Timeouts, reqAlready \in BOOLEAN :
       execs' = [execs EXCEPT ![i] =
         [st |-> IF timeout = "range" THEN "done" ELSE "running",
          ac |-> FALSE, inTable |-> TRUE, req |-> reqAlready,
          wired |-> ~reqAlready, hasTimeout |-> (timeout = "ok"),
          timeoutAborted |-> FALSE,
          status |-> IF mode = "task" THEN "submitted" ELSE "none",
          lines |-> 0]]
  /\ UNCHANGED <<pairFrame, closed>>

\* extra.signal of the request of execution i fires: () => ac.abort()
RequestAbort(i) ==
  /\ execs[i].st = "running" /\ ~execs[i].req
  /\ execs' = [execs EXCEPT ![i].req = TRUE, ![i].ac = @ \/ execs[i].wired]
  /\ UNCHANGED <<pairFrame, closed>>

\* The timeout signal of execution i fires.
Timeout(i) ==
  /\ execs[i].st = "running" /\ execs[i].hasTimeout /\ ~execs[i].timeoutAborted
  /\ execs' = [execs EXCEPT ![i].timeoutAborted = TRUE]
  /\ UNCHANGED <<pairFrame, closed>>

\* (mutant) a cancel aborts and drops every controller of the table.
CancelTask_AnyController(i) ==
  /\ mode = "task" /\ execs[i].status \in {"submitted", "working"}
  /\ execs' = [j \in Ids |->
       [execs[j] EXCEPT
          !.status = IF j = i THEN "cancelled" ELSE @,
          !.ac = @ \/ execs[j].inTable,
          !.inTable = FALSE]]
  /\ UNCHANGED <<pairFrame, closed>>

\* tasks/cancel for task i: ExoTaskStore.updateTaskStatus(i, "cancelled"); a
\* terminal or unknown task makes super throw before anything is aborted.
CancelTask(i) ==
  /\ mode = "task" /\ execs[i].status \in {"submitted", "working"}
  /\ execs' = [execs EXCEPT
       ![i].status = "cancelled",
       ![i].ac = @ \/ execs[i].inTable,
       ![i].inTable = FALSE]
  /\ UNCHANGED <<pairFrame, closed>>

\* The log callback of execution i: one more line in its transcript, and in
\* task mode working written to its task unless the store refuses.
LogLine(i) ==
  /\ execs[i].st = "running" /\ execs[i].lines < MaxPairLines
  /\ execs' = [execs EXCEPT
       ![i].lines = @ + 1,
       ![i].status = IF @ \in {"submitted", "working"} THEN "working" ELSE @]
  /\ UNCHANGED <<pairFrame, closed>>

\* The handler / background run of execution i ends: the result is classified
\* (stored, in task mode, unless the store refuses) and the entry deleted.
Finish(i) ==
  /\ execs[i].st = "running"
  /\ \E exitZero \in BOOLEAN :
       execs' = [execs EXCEPT
         ![i].st = "done",
         ![i].inTable = FALSE,
         ![i].status =
           IF @ \in {"submitted", "working"}
           THEN (IF exitZero /\ ~signalOf(execs[i]) THEN "completed" ELSE "failed")
           ELSE @]
  /\ UNCHANGED <<pairFrame, closed>>

\* server.server.onclose: every controller of the table is aborted, the table
\* cleared, the task store purged.
CloseSession ==
  /\ ~closed
  /\ closed' = TRUE
  /\ execs' = [j \in Ids |->
       [execs[j] EXCEPT
          !.ac = @ \/ execs[j].inTable,
          !.inTable = FALSE,
          !.status = IF mode = "task" THEN "none" ELSE @]]
  /\ UNCHANGED pairFrame

PairInit ==
  /\ ExecInit /\ HandlerInit /\ AppInit
  /\ hpc = "idle" /\ budget = 0
  /\ mode \in {"sync", "task"}
  /\ execs = [i \in Ids |-> NoExec]
  /\ registryFile = Nothing
  /\ regCall = [op |-> "none", filePath |-> <<>>, ret |-> "none"]

PairNext ==
  \/ \E i \in Ids : StartExecution(i)
  \/ \E i \in Ids : RequestAbort(i)
  \/ \E i \in Ids : Timeout(i)
  \/ \E i \in Ids : CancelTask(i)
  \/ \E i \in Ids : LogLine(i)
  \/ \E i \in Ids : Finish(i)
  \/ CloseSession

PairSpec == PairInit /\ [][PairNext]_vars

\* The cancellation of execution i is fired in this step.
CancelFired(i) ==
  \/ execs'[i].req /\ ~execs[i].req
  \/ execs'[i].timeoutAborted /\ ~execs[i].timeoutAborted
  \/ execs'[i].ac /\ ~execs[i].ac
  \/ execs'[i].status = "cancelled" /\ execs[i].status # "cancelled"

\* C29: a step other than the session's close that fires the cancellation of
\* one execution (request abort, timeout, tasks/cancel) leaves the controller,
\* the table entry, the task status and the transcript of every other
\* execution as they are.
C29_ExecutionsIndependent ==
  [][\A i \in Ids :
       (closed' = closed /\ execs[i].st # "none" /\ CancelFired(i))
         => \A j \in Ids \ {i} : execs'[j] = execs[j]]_vars

\* One task cancelled, the other still running in the table with its line.
C29_Witness ==
  /\ mode = "task"
  /\ execs["e1"].status = "cancelled" /\ execs["e1"].ac /\ ~execs["e1"].inTable
  /\ execs["e2"].st = "running" /\ execs["e2"].inTable /\ ~signalOf(execs["e2"])
  /\ execs["e2"].status = "working" /\ execs["e2"].lines = 1

--------------------------------------------------------------------------
(* The project registry (src/src/registry.ts): a JSON file of access key ->
   absolute path, read and written whole by every call. *)

\* A path is a sequence of segments; a leading "/" makes it absolute.
Cwd == <<"w">>
FilePaths ==
  { <<"a">>, <<".", "a">>, <<"/", "w", "a">>, <<"b">>, <<"a", "..", "b">>, <<"c">> }
AccessKeys == {"k1", "k2", "k3", "k4"}

RECURSIVE normalize(_, _)
normalize(segs, acc) ==
  IF segs = <<>> THEN acc
  ELSE LET h == Head(segs)
       IN normalize(Tail(segs),
            IF h = "." THEN acc
            ELSE IF h = ".." THEN (IF acc = <<>> THEN acc ELSE Front(acc))
            ELSE Append(acc, h))

\* path.resolve(filePath)
resolve(filePath) ==
  IF filePath # <<>> /\ Head(filePath) = "/"
  THEN normalize(Tail(filePath), <<>>)
  ELSE normalize(filePath, Cwd)

\* loadRegistry: {} when there is no file.
loadRegistry == IF registryFile = Nothing THEN <<>> ELSE registryFile[1]
saveRegistry(registry) == registryFile' = Just(registry)

\* Object.entries(registry): the positions whose path is `absolute`.
entriesWith(registry, absolute) ==
  {i \in DOMAIN registry : registry[i].path = absolute}
keysOf(registry) == {registry[i].key : i \in DOMAIN registry}
Min(S) == CHOOSE x \in S : \A y \in S : x <= y
\* delete registry[key]
without(registry, i) ==
  SubSeq(registry, 1, i - 1) \o SubSeq(registry, i + 1, Len(registry))

called(op, filePath, ret) ==
  regCall' = [op |-> op, filePath |-> filePath, ret |-> ret]

\* (mutant) no look for the path among the entries.
addProject_NoDupCheck(filePath, exists, accessKey) ==
  LET absolute == resolve(filePath)
      registry == loadRegistry
  IN IF ~exists
     THEN called("add", filePath, "thrown") /\ UNCHANGED registryFile
     ELSE /\ accessKey \notin keysOf(registry)
          /\ saveRegistry(Append(registry, [key |-> accessKey, path |-> absolute]))
          /\ called("add", filePath, accessKey)

\* addProject; `exists` is what access(absolute) finds, accessKey the key that
\* generateAccessKey gives when the loop ends.
addProject(filePath, exists, accessKey) ==
  LET absolute == resolve(filePath)
      registry == loadRegistry
      dup == entriesWith(registry, absolute)
  IN IF ~exists
     THEN called("add", filePath, "thrown") /\ UNCHANGED registryFile
     ELSE IF dup # {}
     THEN called("add", filePath, registry[Min(dup)].key) /\ UNCHANGED registryFile
     ELSE /\ accessKey \notin keysOf(registry)
          /\ saveRegistry(Append(registry, [key |-> accessKey, path |-> absolute]))
          /\ called("add", filePath, accessKey)

\* (mutant) an unknown key is not reported: the registry is saved as loaded.
removeProject_NoThrow(accessKey) ==
  LET registry == loadRegistry
      at == {i \in DOMAIN registry : registry[i].key = accessKey}
  IN /\ saveRegistry(IF at = {} THEN registry ELSE without(registry, Min(at)))
     /\ called("rm", <<accessKey>>, "ok")

removeProject(accessKey) ==
  LET registry == loadRegistry
      at == {i \in DOMAIN registry : registry[i].key = accessKey}
  IN IF at = {}
     THEN called("rm", <<accessKey>>, "thrown") /\ UNCHANGED registryFile
     ELSE /\ saveRegistry(without(registry, Min(at)))
          /\ called("rm", <<accessKey>>, "ok")

removeProjectByPath(filePath) ==
  LET registry == loadRegistry
      at == entriesWith(registry, resolve(filePath))
  IN IF at = {}
     THEN called("rmPath", filePath, "thrown") /\ UNCHANGED registryFile
     ELSE /\ saveRegistry(without(registry, Min(at)))
          /\ called("rmPath", filePath, "ok")

registryFrame ==
  <<execVars, sigVars, taskVars, logVars, srvVars, mode, execs, appVars>>

AddProject ==
  /\ \E filePath \in FilePaths, exists \in BOOLEAN, accessKey \in AccessKeys :
       addProject(filePath, exists, accessKey)
  /\ UNCHANGED registryFrame

RemoveProject ==
  /\ \E accessKey \in AccessKeys : removeProject(accessKey)
  /\ UNCHANGED registryFrame

RemoveProjectByPath ==
  /\ \E filePath \in FilePaths : removeProjectByPath(filePath)
  /\ UNCHANGED registryFrame

RegistryInit ==
  /\ ExecInit /\ HandlerInit /\ AppInit
  /\ hpc = "idle" /\ budget = 0 /\ mode = "cli"
  /\ execs = <<>>
  /\ registryFile = Nothing
  /\ regCall = [op |-> "none", filePath |-> <<>>, ret |-> "none"]

RegistryNext ==
  \/ AddProject
  \/ RemoveProject
  \/ RemoveProjectByPath

RegistrySpec == RegistryInit /\ [][RegistryNext]_vars

--------------------------------------------------------------------------
\* resolveProject(accessKey): the path of the key, Nothing when it throws
\* the not-found error.
resolveProject(accessKey) ==
  LET registry == loadRegistry
      at == {i \in DOMAIN registry : registry[i].key = accessKey}
  IN IF at = {} THEN Nothing ELSE Just(registry[Min(at)].path)

entriesOf(registry) == {registry[i] : i \in DOMAIN registry}

--------------------------------------------------------------------------
(* loadConfig (config.ts): the parsed YAML mapping to a configuration. *)

\* Numbers are held in hundredths, so that 3.14 is a value: 314.
Scale == 100
MaxPort == 65535

\* A YAML value: its JavaScript type, n for a number (in hundredths) or a
\* boolean (1 / 0), s for the characters of a string. A "command" is an object
\* with string description and command, an "object" any other object.
Val(t, n, s) == [t |-> t, n |-> n, s |-> s]
Num(n) == Val("number", n, <<>>)
Str(s) == Val("string", 0, s)
Bool(b) == Val("boolean", IF b THEN 1 ELSE 0, <<>>)
Null == Val("null", 0, <<>>)
Obj == Val("object", 0, <<>>)
Cmd == Val("command", 0, <<>>)

Digits == {"0", "1", "2", "3", "4", "5", "6", "7", "8", "9"}
digitOf(c) ==
  CASE c = "0" -> 0 [] c = "1" -> 1 [] c = "2" -> 2 [] c = "3" -> 3
    [] c = "4" -> 4 [] c = "5" -> 5 [] c = "6" -> 6 [] c = "7" -> 7
    [] c = "8" -> 8 [] c = "9" -> 9

RECURSIVE trimStart(_)
trimStart(s) == IF s # <<>> /\ Head(s) = " " THEN trimStart(Tail(s)) ELSE s
RECURSIVE trimEnd(_)
trimEnd(s) ==
  IF s # <<>> /\ s[Len(s)] = " " THEN trimEnd(SubSeq(s, 1, Len(s) - 1)) ELSE s

\* The value of a run of decimal digits.
RECURSIVE digitsValue(_, _)
digitsValue(s, acc) ==
  IF s = <<>> THEN acc ELSE digitsValue(Tail(s), 10 * acc + digitOf(Head(s)))

allDigits(s) == \A i \in DOMAIN s : s[i] \in Digits

\* StringToNumber for the decimal literals of the model: blank is 0, digits
\* with at most two fraction digits are their value, anything else is NaN.
stringToNumber(str) ==
  LET s == trimEnd(trimStart(str))
      dots == {i \in DOMAIN s : s[i] = "."}
  IN IF s = <<>> THEN Just(0)
     ELSE IF dots = {} THEN
       (IF allDigits(s) THEN Just(Scale * digitsValue(s, 0)) ELSE Nothing)
     ELSE LET d == CHOOSE i \in dots : TRUE
              whole == SubSeq(s, 1, d - 1)
              frac == SubSeq(s, d + 1, Len(s))
          IN IF Cardinality(dots) = 1 /\ allDigits(whole) /\ allDigits(frac)
                /\ Len(whole) + Len(frac) > 0 /\ Len(frac) <= 2
             THEN Just(Scale * digitsValue(whole, 0)
                       + (IF Len(frac) = 1 THEN 10 ELSE 1) * digitsValue(frac, 0))
             ELSE Nothing

\* Number(value): Nothing is NaN.
Number(v) ==
  CASE v.t = "number" -> Just(v.n)
    [] v.t = "boolean" -> Just(Scale * v.n)
    [] v.t = "null" -> Just(0)
    [] v.t = "string" -> stringToNumber(v.s)
    [] OTHER -> Nothing

\* Number.isInteger
isInteger(x) == x # Nothing /\ x[1] % Scale = 0

RESERVED_KEYS == {"port", "taskMode"}
\* NAME_PATTERN.test(name), for the names of the model
namePattern(name) == name \in {"port", "taskMode", "hello", "build-1"}

\* parsed.key: undefined (Nothing) when the mapping has no such key.
field(parsed, key) ==
  LET at == {i \in DOMAIN parsed : parsed[i].name = key}
  IN IF at = {} THEN Nothing ELSE Just(parsed[CHOOSE i \in at : TRUE].value)

Failed(err) == [err |-> err, port |-> Nothing, taskMode |-> Nothing, commands |-> <<>>]

\* The loop over Object.entries(parsed): the names pushed, or the error.
RECURSIVE parseCommands(_, _)
parseCommands(es, acc) ==
  IF es = <<>> THEN [err |-> "none", commands |-> acc]
  ELSE LET e == Head(es)
       IN IF e.name \in RESERVED_KEYS THEN parseCommands(Tail(es), acc)
          ELSE IF ~namePattern(e.name) THEN [err |-> "name", commands |-> <<>>]
          ELSE IF e.value.t # "command" THEN [err |-> "command", commands |-> <<>>]
          ELSE parseCommands(Tail(es), Append(acc, e.name))

\* loadConfig, from the parsed document on.
loadConfig(parsed) ==
  LET rawPort == field(parsed, "port")
      port == IF rawPort = Nothing THEN Nothing ELSE Number(rawPort[1])
      rawTaskMode == field(parsed, "taskMode")
      cs == parseCommands(parsed, <<>>)
  IN IF rawPort # Nothing
        /\ (~isInteger(port) \/ port[1] < 1 * Scale \/ port[1] > MaxPort * Scale)
     THEN Failed("port")
     ELSE IF rawTaskMode # Nothing /\ rawTaskMode[1].t # "boolean"
     THEN Failed("taskMode")
     ELSE IF cs.err # "none" THEN Failed(cs.err)
     ELSE [err |-> "none",
           port |-> IF rawPort = Nothing THEN Nothing ELSE Just(port[1] \div Scale),
           taskMode |-> IF rawTaskMode = Nothing THEN Nothing
                        ELSE Just(rawTaskMode[1].n = 1),
           commands |-> cs.commands]

\* The values a port key is given.
PortValues ==
  { Num(0), Num(1 * Scale), Num(8080 * Scale), Num(MaxPort * Scale),
    Num((MaxPort + 1) * Scale), Num(314), Num(-1 * Scale), Num(MaxPort * Scale + 50),
    Str(<<"a", "b", "c">>), Str(<<"8", "0", "8", "0">>), Str(<<>>),
    Str(<<" ", "8", "0">>), Str(<<"3", ".", "1", "4">>), Str(<<"0">>),
    Bool(TRUE), Bool(FALSE), Null, Obj }
TaskModeValues == { Bool(TRUE), Bool(FALSE), Str(<<"y", "e", "s">>), Num(1 * Scale) }

Entry(name, value) == [name |-> name, value |-> value]
ConfigEntries ==
  {Entry("port", v) : v \in PortValues}
    \cup {Entry("taskMode", v) : v \in TaskModeValues}
    \cup {Entry("hello", v) : v \in {Cmd, Obj}}
    \cup {Entry("build-1", Cmd), Entry("bad name", Cmd)}

\* The documents: mappings of at most two keys, in the order written.
ParsedConfigs ==
  {<<>>} \cup {<<e>> : e \in ConfigEntries}
    \cup {<<e, f>> : e \in ConfigEntries,
                     f \in {g \in ConfigEntries : g.name \in {"port", "hello", "taskMode"}}}

configFrame ==
  <<execVars, sigVars, taskVars, logVars, srvVars, mode, execs, registryFile,
    regCall, adds, tui, watch>>

LoadConfig ==
  /\ config.out = Nothing
  /\ config' = [config EXCEPT !.out = Just(loadConfig(config.parsed))]
  /\ UNCHANGED configFrame

ConfigInit ==
  /\ ExecInit /\ HandlerInit
  /\ hpc = "idle" /\ budget = 0 /\ mode = "cli"
  /\ execs = <<>> /\ registryFile = Nothing
  /\ regCall = [op |-> "none", filePath |-> <<>>, ret |-> "none"]
  /\ adds = <<>> /\ tui = <<>> /\ watch = <<>>
  /\ \E parsed \in ParsedConfigs :
       /\ \A i, j \in DOMAIN parsed : parsed[i].name = parsed[j].name => i = j
       /\ config = [parsed |-> parsed, out |-> Nothing]

ConfigNext == LoadConfig

ConfigSpec == ConfigInit /\ [][ConfigNext]_vars

\* The port value of the loaded document is a number that is an integer
\* between 1 and 65535.
portIsValid ==
  LET rawPort == field(config.parsed, "port")[1]
  IN rawPort.t = "number" /\ rawPort.n % Scale = 0
     /\ 1 * Scale <= rawPort.n /\ rawPort.n <= MaxPort * Scale

\* C32: a document with a port key is loaded without the Invalid port error
\* exactly when the port value is an integer between 1 and 65535, and the
\* reserved keys are never among the commands of a loaded configuration.
C32_PortAcceptedIffValid ==
  config.out # Nothing =>
    /\ field(config.parsed, "port") # Nothing =>
         ((config.out[1].err # "port") <=> portIsValid)
    /\ \A i \in DOMAIN config.out[1].commands :
         config.out[1].commands[i] \notin RESERVED_KEYS

--------------------------------------------------------------------------
\* C33: with the process closed and both streams ended, executeCommand
\* returns or throws in the end, also when the promise of a log call rejected.
C33_ReturnsAfterClose ==
  []((\A s \in Streams : phase[s] = "ended")
       => []((proc = "closed") => <>(pc \in {"returned", "threw"})))

--------------------------------------------------------------------------
\* C34: SIGTERM is sent to the process group at most once in an execution,
\* and no step taken after executeCommand has returned or thrown sends it.
C34_NoSignalAfterEnd ==
  /\ [](termSent <= 1)
  /\ [][(pc \in {"returned", "threw"}) => (termSent' = termSent)]_vars

--------------------------------------------------------------------------
\* C35: activeExecutions has an entry for an id only while the execution of
\* that id is in flight.
C35_EntryOnlyInFlight ==
  \A i \in Ids : execs[i].inTable => execs[i].st = "running"

--------------------------------------------------------------------------
\* C36: when the background run of a stored task that is not cancelled was
\* killed, the task becomes failed, with an error result that says timed out
\* if the timeout signal is active and cancelled if not; a failed task never
\* becomes cancelled afterwards.
C36_KilledTaskFails ==
  /\ [][(mode = "task" /\ hpc = "getTask" /\ hpc' = "done"
           /\ Stored /\ status # "cancelled")
          => /\ Stored' /\ status' = "failed"
             /\ taskResult' # Nothing /\ taskResult'[1].isError
             /\ taskResult'[1].kind =
                  IF hasTimeout /\ timeoutAborted THEN "timedout" ELSE "cancelled"]_vars
  /\ [][(Stored /\ status = "failed") => (~Stored' \/ status' = "failed")]_vars

\* A run killed through the request signal, with no timeout fired.
C36_Witness ==
  /\ mode = "task" /\ hpc = "done" /\ Stored /\ status = "failed"
  /\ reqAborted /\ ~timeoutAborted /\ pc = "returned" /\ result[1].killed
  /\ taskResult # Nothing /\ taskResult[1].kind = "cancelled"

--------------------------------------------------------------------------
\* The line count of the status message of the stored task, 0 without one.
shownCount ==
  IF Stored /\ task[1].statusMessage # Nothing
  THEN task[1].statusMessage[1].count ELSE 0

\* C37: the line count in the status message of a stored task never goes
\* down, and with no log call in flight on a task that is not terminal it is
\* the number of records dispatched.
C37_CountMonotonic ==
  /\ [][(Stored /\ Stored') => shownCount' >= shownCount]_vars
  /\ [](mode = "task" /\ Stored /\ ~isTerminal(status)
          /\ (\A s \in Streams : inflight[s] = Nothing)
        => shownCount = Len(lines) /\ lineCount = Len(lines))

\* A line of each stream dispatched, both calls done, the task still working.
C37_Witness ==
  /\ mode = "task" /\ Stored /\ status = "working" /\ shownCount = 2
  /\ \A s \in Streams : inflight[s] = Nothing
  /\ {lines[i][1] : i \in DOMAIN lines} = {"stdout", "stderr"}

--------------------------------------------------------------------------
(* The dashboard (src/src/tui.ts): panels of execution cards per project, the
   running counts and the spinner timer. *)

ProjectKeys == {"p1", "p2"}
CardIds == {"c1", "c2", "c3"}
ExecutionStatuses == {"running", "success", "error", "cancelled", "timeout"}

NoPanel == [present |-> FALSE, cards |-> [id \in CardIds |-> "none"], runningCount |-> 0]

\* startSpinner / stopSpinner: spinnerTimer set or null
startSpinner(t) == [t EXCEPT !.spinnerTimer = TRUE]
stopSpinner(t) == [t EXCEPT !.spinnerTimer = FALSE]

tuiAddProject(projectKey) ==
  IF tui.panels[projectKey].present THEN tui
  ELSE [tui EXCEPT !.panels[projectKey] = [NoPanel EXCEPT !.present = TRUE]]

tuiRemoveProject(projectKey) ==
  LET panel == tui.panels[projectKey]
      t1 == [tui EXCEPT
               !.cardToProject = [id \in CardIds |->
                  IF panel.cards[id] # "none" THEN "none" ELSE @[id]],
               !.totalRunningCount = @ - panel.runningCount,
               !.panels[projectKey] = NoPanel]
  IN IF ~panel.present THEN tui
     ELSE IF \A k \in ProjectKeys : ~t1.panels[k].present
     THEN (IF t1.totalRunningCount <= 0
           THEN stopSpinner([t1 EXCEPT !.totalRunningCount = 0])
           ELSE t1)
     ELSE t1

addExecution(id, projectKey) ==
  IF ~tui.panels[projectKey].present THEN tui
  ELSE startSpinner([tui EXCEPT
         !.panels[projectKey].cards[id] = "running",
         !.cardToProject[id] = projectKey,
         !.panels[projectKey].runningCount = @ + 1,
         !.totalRunningCount = @ + 1])

updateExecution(id, newStatus) ==
  LET projectKey == tui.cardToProject[id]
  IN IF projectKey = "none" THEN tui
     ELSE IF ~tui.panels[projectKey].present THEN tui
     ELSE IF tui.panels[projectKey].cards[id] = "none" THEN tui
     ELSE IF tui.panels[projectKey].cards[id] # "running" THEN tui
     ELSE LET t1 == [tui EXCEPT !.panels[projectKey].cards[id] = newStatus]
          IN IF newStatus = "running" THEN t1
             ELSE LET t2 == [t1 EXCEPT !.panels[projectKey].runningCount = @ - 1,
                                       !.totalRunningCount = @ - 1]
                  IN IF t2.totalRunningCount <= 0
                     THEN stopSpinner([t2 EXCEPT !.totalRunningCount = 0])
                     ELSE t2

tuiFrame ==
  <<execVars, sigVars, taskVars, logVars, srvVars, mode, execs, registryFile,
    regCall, config, adds, watch>>

TuiAddProject ==
  /\ \E projectKey \in ProjectKeys : tui' = tuiAddProject(projectKey)
  /\ UNCHANGED tuiFrame

TuiRemoveProject ==
  /\ \E projectKey \in ProjectKeys : tui' = tuiRemoveProject(projectKey)
  /\ UNCHANGED tuiFrame

\* Execution ids are fresh: an id is not given to a second card while the
\* dashboard knows it.
AddExecution ==
  /\ \E id \in CardIds, projectKey \in ProjectKeys :
       /\ tui.cardToProject[id] = "none"
       /\ tui' = addExecution(id, projectKey)
  /\ UNCHANGED tuiFrame

UpdateExecution ==
  /\ \E id \in CardIds, newStatus \in ExecutionStatuses :
       tui' = updateExecution(id, newStatus)
  /\ UNCHANGED tuiFrame

TuiInit ==
  /\ ExecInit /\ HandlerInit
  /\ hpc = "idle" /\ budget = 0 /\ mode = "cli"
  /\ execs = <<>> /\ registryFile = Nothing
  /\ regCall = [op |-> "none", filePath |-> <<>>, ret |-> "none"]
  /\ config = <<>> /\ adds = <<>> /\ watch = <<>>
  /\ tui = [panels |-> [k \in ProjectKeys |-> NoPanel],
            cardToProject |-> [id \in CardIds |-> "none"],
            totalRunningCount |-> 0,
            spinnerTimer |-> FALSE]

TuiNext ==
  \/ TuiAddProject
  \/ TuiRemoveProject
  \/ AddExecution
  \/ UpdateExecution

TuiSpec == TuiInit /\ [][TuiNext]_vars

\* The cards of a panel in status running.
runningCards(k) == {id \in CardIds : tui.panels[k].cards[id] = "running"}
allRunning ==
  {<<k, id>> \in ProjectKeys \X CardIds :
     tui.panels[k].present /\ id \in runningCards(k)}

\* C38: the total running count is the number of running cards of the panels
\* there are, the running count of each panel is the number of its own, and
\* the spinner timer is set exactly when the total is above 0.
C38_CountsAndSpinner ==
  /\ tui.totalRunningCount = Cardinality(allRunning)
  /\ \A k \in ProjectKeys :
       (tui.panels[k].present =>
          tui.panels[k].runningCount = Cardinality(runningCards(k)))
  /\ tui.spinnerTimer <=> (tui.totalRunningCount > 0)

--------------------------------------------------------------------------
(* Two addProject calls in flight at once (src/src/registry.ts): each awaits
   loadRegistry, works on the object it loaded and awaits saveRegistry. *)

Callers == {"x", "y"}

addFrame ==
  <<execVars, sigVars, taskVars, logVars, srvVars, mode, execs, regCall,
    config, tui, watch>>

\* addProject up to the end of `await loadRegistry()`, and on to its return
\* when the path is found among the entries loaded.
AddLoad(c) ==
  /\ adds[c].at = "called"
  /\ LET absolute == resolve(adds[c].filePath)
         registry == loadRegistry
         dup == entriesWith(registry, absolute)
     IN adds' = [adds EXCEPT ![c] =
          IF dup # {}
          THEN [@ EXCEPT !.at = "returned", !.registry = registry,
                         !.ret = registry[Min(dup)].key]
          ELSE [@ EXCEPT !.at = "loaded", !.registry = registry]]
  /\ UNCHANGED <<registryFile, addFrame>>

\* addProject from the key generation to its return: the entry is put in the
\* object loaded before and that object is saved.
AddSave(c) ==
  /\ adds[c].at = "loaded"
  /\ \E accessKey \in AccessKeys \ keysOf(adds[c].registry) :
       LET registry == Append(adds[c].registry,
                         [key |-> accessKey, path |-> resolve(adds[c].filePath)])
       IN /\ saveRegistry(registry)
          /\ adds' = [adds EXCEPT ![c] =
               [@ EXCEPT !.at = "returned", !.registry = registry, !.ret = accessKey]]
  /\ UNCHANGED addFrame

\* Two calls for two paths that are not registered, of files that exist; the
\* registry has no file yet or holds one other project.
RaceInit ==
  /\ ExecInit /\ HandlerInit
  /\ hpc = "idle" /\ budget = 0 /\ mode = "cli"
  /\ execs = <<>>
  /\ regCall = [op |-> "none", filePath |-> <<>>, ret |-> "none"]
  /\ config = <<>> /\ tui = <<>> /\ watch = <<>>
  /\ \/ registryFile = Nothing
     \/ \E k \in AccessKeys :
          registryFile = Just(<<[key |-> k, path |-> resolve(<<"c">>)]>>)
  /\ \E px, py \in FilePaths :
       /\ resolve(px) = <<"w", "a">> /\ resolve(py) = <<"w", "b">>
       /\ adds = [c \in Callers |->
            [at |-> "called", filePath |-> IF c = "x" THEN px ELSE py,
             registry |-> <<>>, ret |-> "none"]]

RaceNext ==
  \/ \E c \in Callers : AddLoad(c)
  \/ \E c \in Callers : AddSave(c)

RaceSpec == RaceInit /\ [][RaceNext]_vars

\* C39: when both calls have returned, both paths are registered.
C39_NoLostRegistration ==
  (\A c \in Callers : adds[c].at = "returned")
    => \A c \in Callers :
         entriesWith(loadRegistry, resolve(adds[c].filePath)) # {}

--------------------------------------------------------------------------
(* The HTTP entry point (index.ts): sessions per project, the config-file
   watchers, and the reload of the registry when its file changes. *)

WatchKeys == {"k1", "k2"}
SessionIds == {"s1", "s2"}

NoSession == [st |-> "none", key |-> "none"]

\* The sessions in projectServers.get(accessKey)
projectSet(w, accessKey) ==
  {sid \in SessionIds : w.sessions[sid].st = "open" /\ w.sessions[sid].key = accessKey}

\* ensureConfigWatcher / stopConfigWatcher on configWatchers
ensureConfigWatcher(watchers, accessKey) == watchers \cup {accessKey}
stopConfigWatcher(watchers, accessKey) == watchers \ {accessKey}

watchFrame ==
  <<execVars, sigVars, taskVars, logVars, srvVars, mode, execs, registryFile,
    regCall, config, adds, tui>>

\* handleMcp for an initialize request, up to the transport and server made:
\* the access key is resolved in the registry and the config file exists.
ResolveSession(sid) ==
  /\ watch.sessions[sid].st = "none"
  /\ \E accessKey \in watch.registry :
       watch' = [watch EXCEPT !.sessions[sid] = [st |-> "resolved", key |-> accessKey]]
  /\ UNCHANGED watchFrame

\* onsessioninitialized
SessionInitialized(sid) ==
  /\ watch.sessions[sid].st = "resolved"
  /\ watch' = [watch EXCEPT
       !.sessions[sid].st = "open",
       !.watchers = ensureConfigWatcher(@, watch.sessions[sid].key)]
  /\ UNCHANGED watchFrame

\* transport.onclose
TransportClose(sid) ==
  /\ watch.sessions[sid].st = "open"
  /\ LET accessKey == watch.sessions[sid].key
         w1 == [watch EXCEPT !.sessions[sid] = NoSession]
     IN watch' = IF projectSet(w1, accessKey) = {}
                 THEN [w1 EXCEPT !.watchers = stopConfigWatcher(@, accessKey)]
                 ELSE w1
  /\ UNCHANGED watchFrame

\* Another process adds or removes a project: the registry file changes.
RegistryChange ==
  /\ \E accessKey \in WatchKeys :
       watch' = [watch EXCEPT
         !.registry = IF accessKey \in @ THEN @ \ {accessKey} ELSE @ \cup {accessKey},
         !.changed = TRUE]
  /\ UNCHANGED watchFrame

\* The debounced handler of watchRegistry: syncConfigWatchers.
SyncConfigWatchers ==
  /\ watch.changed
  /\ watch' = [watch EXCEPT !.watchers = watch.registry, !.changed = FALSE]
  /\ UNCHANGED watchFrame

\* startServer has run: the watchers of the registered projects are started.
WatchInit ==
  /\ ExecInit /\ HandlerInit
  /\ hpc = "idle" /\ budget = 0 /\ mode = "cli"
  /\ execs = <<>> /\ registryFile = Nothing
  /\ regCall = [op |-> "none", filePath |-> <<>>, ret |-> "none"]
  /\ config = <<>> /\ adds = <<>> /\ tui = <<>>
  /\ \E registry \in SUBSET WatchKeys :
       watch = [registry |-> registry, watchers |-> registry, changed |-> FALSE,
                sessions |-> [sid \in SessionIds |-> NoSession]]

WatchNext ==
  \/ \E sid \in SessionIds : ResolveSession(sid)
  \/ \E sid \in SessionIds : SessionInitialized(sid)
  \/ \E sid \in SessionIds : TransportClose(sid)
  \/ RegistryChange
  \/ SyncConfigWatchers

WatchSpec == WatchInit /\ [][WatchNext]_vars

openSessions(k) == projectSet(watch, k)

\* C40: a project with an open session has a watcher, and a watcher is only
\* stopped by the close of the project's last session.
C40_WatcherWhileSessions ==
  /\ [](\A k \in WatchKeys : openSessions(k) # {} => k \in watch.watchers)
  /\ [][\A k \in WatchKeys :
          (k \in watch.watchers /\ k \notin watch'.watchers)
            => (openSessions(k) # {} /\ openSessions(k)' = {})]_vars

====
